---- MODULE Spec2Model ----
(***************************************************************************)
(* A model of the DOS mouse driver interface of dosbox-staging             *)
(* (src/hardware/mouse/mouseif_dos_driver.cpp): the INT 33h dispatcher,    *)
(* the motion and wheel accumulation, the cursor renderer and the guest    *)
(* callback delivery.                                                      *)
(*                                                                         *)
(* Numbers.  16-bit registers are naturals in 0..65535.  The float values  *)
(* of the driver are kept as exact fixed-point integers:                   *)
(*   pos_x, pos_y, pending.x_rel, pending.y_rel   in 1/PosUnit pixel,      *)
(*   state.mickey_delta_x/y                       in 1/MickeyUnit mickey,  *)
(*   state.mickeys_per_pixel_x/y                  in 1/8 (mickeys/pixel),  *)
(*   state.sensitivity_coeff_x/y                  in 1/50,                 *)
(*   the acceleration coefficient                 in 1/2.                  *)
(* Host movements are multiples of half a pixel, so every product the      *)
(* driver forms is exact in these units; float rounding is not modelled.   *)
(*                                                                         *)
(* Specifications.  All start from MOUSEDOS_Init in text mode 3 and share  *)
(* the resets (functions 0x00 and 0x21):                                   *)
(*   Spec          show, hide, enable, disable, video mode changes         *)
(*   SpecReset     resets among guest calls and host events                *)
(*   SpecCallback  a registered handler, events delivered to it            *)
(*   SpecMickey    relative movements and the mickey counters              *)
(*   SpecRange     set position, define range, movements                   *)
(*   SpecPosition  SpecRange with video mode changes and save/load         *)
(*   SpecSaveLoad  saving, changing and loading the driver state           *)
(*   SpecWheel     the wheel extension                                     *)
(*   SpecGetPos    SpecRange with reads of the position                    *)
(*   SpecButtons   button events and the button queries                    *)
(*   SpecHandler   registering and exchanging event handlers               *)
(*   SpecBackdoor  calls through the backdoor entry and through INT 33h    *)
(*   SpecDisable   show, hide, enable, disable                             *)
(*   SpecSensitivity  the sensitivity, loads of guest-written blocks       *)
(*   SpecRate      the interrupt rate and the configured minimum rate      *)
(*   SpecUnimplemented  the functions that only log                        *)
(*   SpecDraw      the cursor drawn, the update region                     *)
(*   SpecRatio     the mickey / pixel rate and movements                   *)
(*   SpecQueue     host input buffered, consumed by the event queue        *)
(*   SpecSeamless  the pointer released, ranges, absolute positions        *)
(*   SpecTeardown  video mode changes against save and load                *)
(*   SpecGfx       the graphics cursor: save, draw, restore, clipping      *)
(*   SpecImmediate  movements with the immediate setting changed           *)
(*   SpecEvents    wheel and movement events, the callback mask            *)
(*   SpecThreshold  the double-speed threshold, guest blocks               *)
(*   SpecPairing   press and release counters up to their wrap             *)
(*   SpecShow      show against the update region, save and load           *)
(* Except in Spec and SpecDisable, the operations other than resets are    *)
(* counted and stop at a bound.                                            *)
(***************************************************************************)
EXTENDS Integers, Sequences, FiniteSets, TLC

\* ------------------------------------------------------------------------
\* Fixed-point units
\* ------------------------------------------------------------------------
PosUnit == 4 * 50
MickeyUnit == PosUnit * 8
SensUnit == 5 * 10
AccUnit == 1 + 1

\* ------------------------------------------------------------------------
\* Program constants
\* ------------------------------------------------------------------------
cursor_size_x == 16
cursor_size_y == 16
cursor_size_xy == cursor_size_x * cursor_size_y
num_buttons == 3

\* enum MouseCursor
CursorSoftware == "Software"
CursorHardware == "Hardware"
CursorText == "Text"

\* enum MouseEventId
MouseHasMoved == 1
PressedLeft == 2
ReleasedLeft == 4
PressedRight == 8
ReleasedRight == 16
PressedMiddle == 32
ReleasedMiddle == 64
WheelHasMoved == 1

default_text_and_mask == 30719
default_text_xor_mask == 30464

default_screen_mask ==
    [i \in 0..15 |->
        <<16383, 8191, 4095, 2047, 1023, 511, 255, 127,
          63, 31, 511, 255, 12543, 63615, 63615, 64767>>[i + 1]]

default_cursor_mask ==
    [i \in 0..15 |->
        <<0, 16384, 24576, 28672, 30720, 31744, 32256, 32512,
          32640, 31744, 27648, 17920, 1536, 768, 768, 0>>[i + 1]]

rate_default_hz == 200
default_double_speed_threshold == 64
user_callback_segment_magic == 25442
INT16_MAX == 32767
INT16_MIN == -32768
UINT16_MAX == 65535

\* ------------------------------------------------------------------------
\* Integer helpers (C semantics)
\* ------------------------------------------------------------------------
Min(a, b) == IF a < b THEN a ELSE b
Max(a, b) == IF a > b THEN a ELSE b
Abs(a) == IF a < 0 THEN -a ELSE a

\* C integer division truncates towards zero
CDiv(a, b) == IF a >= 0 THEN a \div b ELSE -((-a) \div b)

\* static_cast<uint16_t>, static_cast<int16_t>, static_cast<uint8_t>
ToUint16(n) == n % 65536
ToInt16(n) == ((n + 32768) % 65536) - 32768
ToUint8(n) == n % 256

\* std::clamp(v, lo, hi)
StdClamp(v, lo, hi) == IF v < lo THEN lo ELSE IF hi < v THEN hi ELSE v

\* std::lround of the fixed-point value v / unit: half away from zero
LRound(v, unit) ==
    IF v >= 0 THEN (2 * v + unit) \div (2 * unit)
    ELSE -((2 * (-v) + unit) \div (2 * unit))

RECURSIVE BitAndN(_, _, _)
BitAndN(a, b, n) ==
    IF n = 0 THEN 0
    ELSE (a % 2) * (b % 2) + 2 * BitAndN(a \div 2, b \div 2, n - 1)

\* a & b on 16-bit words
BitAnd(a, b) == BitAndN(a, b, 16)

RECURSIVE BitXorN(_, _, _)
BitXorN(a, b, n) ==
    IF n = 0 THEN 0
    ELSE ((a + b) % 2) + 2 * BitXorN(a \div 2, b \div 2, n - 1)

BitXor(a, b) == BitXorN(a, b, 16)

read_low_byte(w) == w % 256
read_high_byte(w) == (w \div 256) % 256

signed_to_reg8(x) == IF x >= 0 THEN ToUint8(x) ELSE ToUint8(256 + x)

signed_to_reg16(x) == IF x >= 0 THEN ToUint16(x) ELSE ToUint16(65536 + x)

reg_to_signed16(x) == IF x >= 32768 THEN ToInt16(x - 65536) ELSE ToInt16(x)

\* ------------------------------------------------------------------------
\* External collaborators: video BIOS (INT 10h) data the driver reads
\* ------------------------------------------------------------------------
M_TEXT == "M_TEXT"
M_GRAPHICS == "M_GRAPHICS"

\* CurMode->type for the BIOS video mode byte
CurModeType(mode) == IF mode \in {0, 1, 2, 3, 7} THEN M_TEXT ELSE M_GRAPHICS

\* CurMode->swidth
CurModeWidth(mode) ==
    CASE mode \in {4, 5, 13, 19} -> 320
      [] mode \in {6, 14, 15, 16, 17, 18} -> 640
      [] mode = 106 -> 800
      [] OTHER -> 640

\* CurMode->sheight
CurModeHeight(mode) ==
    CASE mode \in {4, 5, 6, 13, 14, 19} -> 200
      [] mode \in {15, 16} -> 350
      [] mode \in {17, 18} -> 480
      [] mode = 106 -> 600
      [] OTHER -> 400

\* real_readb(BIOSMEM_SEG, BIOSMEM_NB_ROWS), real_readw(.., BIOSMEM_NB_COLS),
\* real_readb(.., BIOSMEM_CURRENT_PAGE), real_readw(.., BIOSMEM_PAGE_SIZE)
BiosRows(mode) == 24
BiosCols(mode) == IF mode \in {0, 1} THEN 40 ELSE 80
BiosCurrentPage == 0
BiosPageSize(mode) == IF mode \in {0, 1} THEN 2048 ELSE 4096

\* Contents of the screen before the driver draws on it: a pattern that
\* tells neighbouring cells and pixels apart.
BaseChar(col, row, page) == 8192 + ((7 * row + col + 3 * page) % 251)
BasePixel(x, y, page) == (x + 5 * y + 3 * page) % 16

\* MOUSE_ClampRelativeMovement: the platform maximum magnitude of one
\* relative movement, in pixels
MaxRelMovement == 2048
MOUSE_ClampRelativeMovement(rel) ==
    StdClamp(rel, -(MaxRelMovement * PosUnit), MaxRelMovement * PosUnit)

\* clamp_to_int8
clamp_to_int8(v) == StdClamp(v, -128, 127)

\* ------------------------------------------------------------------------
\* The driver state block (struct state) as constructed
\* ------------------------------------------------------------------------
Zero3 == [i \in 0..(num_buttons - 1) |-> 0]
Zero2 == [i \in 0..1 |-> 0]
ZeroMask == [i \in 0..15 |-> 0]
ZeroData == [i \in 0..(cursor_size_xy - 1) |-> 0]

DriverStateDefault ==
    [ enabled |-> FALSE,
      wheel_api |-> FALSE,
      times_pressed |-> Zero3,
      times_released |-> Zero3,
      last_released_x |-> Zero3,
      last_released_y |-> Zero3,
      last_pressed_x |-> Zero3,
      last_pressed_y |-> Zero3,
      last_wheel_moved_x |-> 0,
      last_wheel_moved_y |-> 0,
      mickey_counter_x |-> 0,
      mickey_counter_y |-> 0,
      mickey_delta_x |-> 0,
      mickey_delta_y |-> 0,
      mickeys_per_pixel_x |-> 0,
      mickeys_per_pixel_y |-> 0,
      double_speed_threshold |-> 0,
      granularity_x |-> 0,
      granularity_y |-> 0,
      update_region_x |-> Zero2,
      update_region_y |-> Zero2,
      language |-> 0,
      mode |-> 0,
      sensitivity_x |-> 0,
      sensitivity_y |-> 0,
      unknown_01 |-> 50,
      sensitivity_coeff_x |-> 0,
      sensitivity_coeff_y |-> 0,
      minpos_x |-> 0,
      maxpos_x |-> 0,
      minpos_y |-> 0,
      maxpos_y |-> 0,
      page |-> 0,
      inhibit_draw |-> FALSE,
      hidden |-> 0,
      oldhidden |-> 0,
      clipx |-> 0,
      clipy |-> 0,
      hot_x |-> 0,
      hot_y |-> 0,
      background |-> [enabled |-> FALSE, pos_x |-> 0, pos_y |-> 0,
                      data |-> ZeroData],
      cursor_type |-> CursorSoftware,
      text_and_mask |-> 0,
      text_xor_mask |-> 0,
      user_screen_mask |-> FALSE,
      user_cursor_mask |-> FALSE,
      user_def_screen_mask |-> ZeroMask,
      user_def_cursor_mask |-> ZeroMask,
      user_callback_mask |-> 0,
      user_callback_segment |-> 0,
      user_callback_offset |-> 0 ]

PendingDefault == [x_rel |-> 0, y_rel |-> 0, x_abs |-> 0, y_abs |-> 0, w_rel |-> 0]

RegsDefault == [ax |-> 0, bx |-> 0, cx |-> 0, dx |-> 0, si |-> 0, di |-> 0, es |-> 0]

\* ------------------------------------------------------------------------
\* The program state
\* ------------------------------------------------------------------------
VARIABLES
    state,              \* struct state: the DOS driver state block
    buttons,            \* MouseButtons12S buttons (.data, bits 0..2)
    pos_x, pos_y,       \* float position, in 1/PosUnit pixel
    counter_w,          \* int8_t wheel counter
    is_mapped,          \* a physical mouse is mapped to this interface
    raw_input,          \* no host acceleration is pre-applied
    rate_is_set,        \* the rate was set by the DOS application
    rate_hz,
    min_rate_hz,
    pending,            \* struct pending
    dos_cb_running,     \* mouse_shared.dos_cb_running
    active_dos,         \* mouse_shared.active_dos
    dos_immediate,      \* mouse_config.dos_immediate
    mouse_is_captured,  \* the pointer is captured by the guest
    regs,               \* CPU registers ax, bx, cx, dx, si, di, es
    guest_stack,        \* words pushed by CPU_Push16, the last one first
    guest_mem,          \* driver state blocks in guest memory, by address
    video_mode,         \* mem_readb(BIOS_VIDEO_MODE)
    text_screen,        \* character cells that differ from BaseChar
    gfx_screen,         \* pixels that differ from BasePixel
    crtc_cursor,        \* hardware text cursor address (CRTC 0x0e/0x0f)
    interface_rate,     \* last rate given to NotifyInterfaceRate
    last,               \* the last operation performed and its inputs
    hist                \* history of the run, kept for the properties

vars ==
    << state, buttons, pos_x, pos_y, counter_w, is_mapped, raw_input,
       rate_is_set, rate_hz, min_rate_hz, pending, dos_cb_running,
       active_dos, dos_immediate, mouse_is_captured, regs, guest_stack,
       guest_mem, video_mode, text_screen, gfx_screen, crtc_cursor,
       interface_rate, last, hist >>

\* The program state as one record, on which the routines below operate.
M ==
    [ state |-> state, buttons |-> buttons, pos_x |-> pos_x, pos_y |-> pos_y,
      counter_w |-> counter_w, is_mapped |-> is_mapped,
      raw_input |-> raw_input, rate_is_set |-> rate_is_set,
      rate_hz |-> rate_hz, min_rate_hz |-> min_rate_hz, pending |-> pending,
      dos_cb_running |-> dos_cb_running, active_dos |-> active_dos,
      dos_immediate |-> dos_immediate,
      mouse_is_captured |-> mouse_is_captured, regs |-> regs,
      guest_stack |-> guest_stack, guest_mem |-> guest_mem,
      video_mode |-> video_mode, text_screen |-> text_screen,
      gfx_screen |-> gfx_screen, crtc_cursor |-> crtc_cursor,
      interface_rate |-> interface_rate ]

\* The next program state is the record m.
Commit(m) ==
    /\ state' = m.state
    /\ buttons' = m.buttons
    /\ pos_x' = m.pos_x
    /\ pos_y' = m.pos_y
    /\ counter_w' = m.counter_w
    /\ is_mapped' = m.is_mapped
    /\ raw_input' = m.raw_input
    /\ rate_is_set' = m.rate_is_set
    /\ rate_hz' = m.rate_hz
    /\ min_rate_hz' = m.min_rate_hz
    /\ pending' = m.pending
    /\ dos_cb_running' = m.dos_cb_running
    /\ active_dos' = m.active_dos
    /\ dos_immediate' = m.dos_immediate
    /\ mouse_is_captured' = m.mouse_is_captured
    /\ regs' = m.regs
    /\ guest_stack' = m.guest_stack
    /\ guest_mem' = m.guest_mem
    /\ video_mode' = m.video_mode
    /\ text_screen' = m.text_screen
    /\ gfx_screen' = m.gfx_screen
    /\ crtc_cursor' = m.crtc_cursor
    /\ interface_rate' = m.interface_rate

\* ------------------------------------------------------------------------
\* Screen access (WriteChar, ReadCharAttr, INT10_PutPixel, INT10_GetPixel)
\* ------------------------------------------------------------------------
EmptyScreen == [k \in {} |-> 0]

ScreenGet(scr, key, base) == IF key \in DOMAIN scr THEN scr[key] ELSE base

ScreenPut(scr, key, v, base) ==
    IF v = base
    THEN [k \in DOMAIN scr \ {key} |-> scr[k]]
    ELSE [k \in DOMAIN scr \cup {key} |-> IF k = key THEN v ELSE scr[k]]

ReadCharAttr(m, col, row, page) ==
    ScreenGet(m.text_screen, <<col, row, page>>, BaseChar(col, row, page))

WriteChar(m, col, row, page, chr, attr) ==
    [m EXCEPT !.text_screen =
        ScreenPut(@, <<col, row, page>>, chr + 256 * attr,
                  BaseChar(col, row, page))]

INT10_GetPixel(m, x, y, page) ==
    ScreenGet(m.gfx_screen, <<x, y, page>>, BasePixel(x, y, page))

\* ------------------------------------------------------------------------
\* Common helper routines
\* ------------------------------------------------------------------------
get_pos_x(m) ==
    BitAnd(ToUint16(LRound(m.pos_x, PosUnit)), m.state.granularity_x)

get_pos_y(m) ==
    BitAnd(ToUint16(LRound(m.pos_y, PosUnit)), m.state.granularity_y)

\* ------------------------------------------------------------------------
\* Text mode cursor
\* ------------------------------------------------------------------------
restore_cursor_background_text(m) ==
    IF m.state.hidden # 0 \/ m.state.inhibit_draw THEN m
    ELSE IF m.state.background.enabled
    THEN LET w == WriteChar(m, m.state.background.pos_x,
                            m.state.background.pos_y, BiosCurrentPage,
                            m.state.background.data[0],
                            m.state.background.data[1])
         IN [w EXCEPT !.state.background.enabled = FALSE]
    ELSE m

\* The software text cursor: the cell is saved, masked and written back
draw_cursor_text_software(m2, bx, by, page, result) ==
    WriteChar([m2 EXCEPT
                 !.state.background.data =
                     [@ EXCEPT ![0] = read_low_byte(result),
                               ![1] = read_high_byte(result)],
                 !.state.background.enabled = TRUE],
              bx, by, page,
              read_low_byte(BitXor(BitAnd(result, m2.state.text_and_mask),
                                   m2.state.text_xor_mask)),
              read_high_byte(BitXor(BitAnd(result, m2.state.text_and_mask),
                                    m2.state.text_xor_mask)))

\* The hardware text cursor: the CRTC cursor address registers are written
draw_cursor_text_hardware(m2, bx, by, page) ==
    [m2 EXCEPT !.crtc_cursor =
        ToUint16(ToUint16(page * BiosPageSize(m2.video_mode))
                 + (by * BiosCols(m2.video_mode) + bx) * 2) \div 2]

\* draw_cursor_text from "Save Background" on, the cursor being in cell
\* (bx, by)
draw_cursor_text_cell(m1, bx, by, page) ==
    IF m1.state.cursor_type = CursorSoftware
    THEN draw_cursor_text_software(
             [m1 EXCEPT !.state.background.pos_x = bx,
                        !.state.background.pos_y = by],
             bx, by, page, ReadCharAttr(m1, bx, by, page))
    ELSE draw_cursor_text_hardware(
             [m1 EXCEPT !.state.background.pos_x = bx,
                        !.state.background.pos_y = by],
             bx, by, page)

\* draw_cursor_text after the background is restored, the cursor at (x, y)
draw_cursor_text_at(m1, x, y) ==
    IF /\ y <= m1.state.update_region_y[1]
       /\ y >= m1.state.update_region_y[0]
       /\ x <= m1.state.update_region_x[1]
       /\ x >= m1.state.update_region_x[0]
    THEN m1
    ELSE draw_cursor_text_cell(
             m1,
             IF m1.state.mode < 2 THEN ToUint16(x \div 8) \div 2
             ELSE ToUint16(x \div 8),
             ToUint16(y \div 8), BiosCurrentPage)

draw_cursor_text_restored(m1) ==
    draw_cursor_text_at(m1, get_pos_x(m1), get_pos_y(m1))

draw_cursor_text(m) ==
    draw_cursor_text_restored(restore_cursor_background_text(m))

\* ------------------------------------------------------------------------
\* Graphic mode cursor
\* ------------------------------------------------------------------------
\* clip_cursor_area not counting the columns clipped at the right
clip_cursor_area_RightUncounted(m, x1, x2, y1, y2) ==
    [ y1 |-> IF y1 < 0 THEN 0 ELSE y1,
      addy |-> IF y1 < 0 THEN ToUint16(0 - y1) ELSE 0,
      y2 |-> IF y2 > m.state.clipy THEN m.state.clipy ELSE y2,
      x1 |-> IF x1 < 0 THEN 0 ELSE x1,
      addx1 |-> IF x1 < 0 THEN ToUint16(0 - x1) ELSE 0,
      x2 |-> IF x2 > m.state.clipx THEN m.state.clipx ELSE x2,
      addx2 |-> 0 ]

clip_cursor_area(m, x1, x2, y1, y2) ==
    [ y1 |-> IF y1 < 0 THEN 0 ELSE y1,
      addy |-> IF y1 < 0 THEN ToUint16(0 - y1) ELSE 0,
      y2 |-> IF y2 > m.state.clipy THEN m.state.clipy ELSE y2,
      x1 |-> IF x1 < 0 THEN 0 ELSE x1,
      addx1 |-> IF x1 < 0 THEN ToUint16(0 - x1) ELSE 0,
      x2 |-> IF x2 > m.state.clipx THEN m.state.clipx ELSE x2,
      addx2 |-> IF x2 > m.state.clipx THEN ToUint16(x2 - m.state.clipx) ELSE 0 ]

\* The value of data_pos when the loops of restore_cursor_background and
\* MOUSEDOS_DrawCursor reach pixel (x, y): data_pos starts at addy * 16,
\* each row adds addx1 before and addx2 after its pixels, each pixel adds 1.
DataPos(c, x, y) ==
    ToUint16(c.addy * cursor_size_x
             + (y - c.y1) * (c.addx1 + (c.x2 - c.x1 + 1) + c.addx2)
             + c.addx1 + (x - c.x1))

\* The pixels the loops visit
Covered(c) == {p \in (c.x1 .. c.x2) \X (c.y1 .. c.y2) : TRUE}

\* The pixel whose data_pos is i, if the loops visit one
PixelAt(c, i) ==
    LET w == c.addx1 + (c.x2 - c.x1 + 1) + c.addx2
        off == i - c.addy * cursor_size_x
        x == c.x1 + (off % w) - c.addx1
        y == c.y1 + (off \div w)
    IN  IF /\ c.x1 <= c.x2
           /\ c.y1 <= c.y2
           /\ off >= 0
           /\ x \in c.x1 .. c.x2
           /\ y \in c.y1 .. c.y2
           /\ DataPos(c, x, y) = i
        THEN <<x, y>>
        ELSE <<>>

\* state.background.data[i]; an index outside the array reads as 0
DataAt(data, i) == IF i \in DOMAIN data THEN data[i] ELSE 0

\* INT10_PutPixel of value[p] at every pixel p of the set ps
PutPixels(m, ps, page, value) ==
    LET keys == {<<p[1], p[2], page>> : p \in ps}
        new(k) == IF k \in keys THEN value[<<k[1], k[2]>>]
                  ELSE m.gfx_screen[k]
        dom == {k \in DOMAIN m.gfx_screen \cup keys :
                    new(k) # BasePixel(k[1], k[2], k[3])}
    IN  [m EXCEPT !.gfx_screen = [k \in dom |-> new(k)]]

\* The cursor rectangle with top left corner (x1, y1), clipped
cursor_area(m, x1, y1) ==
    clip_cursor_area(m, x1, ToInt16(x1 + cursor_size_x - 1),
                     y1, ToInt16(y1 + cursor_size_y - 1))

\* The loop of restore_cursor_background over the clipped area c
restore_cursor_pixels(m, c) ==
    PutPixels(m, Covered(c), m.state.page,
              [p \in Covered(c) |->
                  DataAt(m.state.background.data, DataPos(c, p[1], p[2]))])

restore_cursor_area(m) ==
    restore_cursor_pixels(m, cursor_area(m, ToInt16(m.state.background.pos_x),
                                         ToInt16(m.state.background.pos_y)))

restore_cursor_background(m) ==
    IF \/ m.state.hidden # 0
       \/ m.state.inhibit_draw
       \/ ~m.state.background.enabled
    THEN m
    ELSE [restore_cursor_area(m) EXCEPT !.state.background.enabled = FALSE]

\* Bit of the mask row tested for the pixel k columns right of the
\* unclipped left edge: the mask is shifted left once per column and its
\* highest bit is tested.
MaskBit(mask, k) == IF k \in 0..15 THEN (mask \div (2 ^ (15 - k))) % 2 ELSE 0

MaskRow(mask, r) == IF r \in DOMAIN mask THEN mask[r] ELSE 0

\* "Save Background": the loop reading the pixels under the cursor
save_cursor_background(m1, c, left, top) ==
    [m1 EXCEPT
       !.state.background.data =
           [i \in DOMAIN @ |->
               IF PixelAt(c, i) # <<>>
               THEN INT10_GetPixel(m1, PixelAt(c, i)[1], PixelAt(c, i)[2],
                                   m1.state.page)
               ELSE @[i]],
       !.state.background.enabled = TRUE,
       !.state.background.pos_x = ToUint16(left),
       !.state.background.pos_y = ToUint16(top)]

\* The pixel the drawing loop puts at p
cursor_pixel(m2, c, p, screen_mask, cursor_mask) ==
    LET row == c.addy + p[2] - c.y1
        col == c.addx1 + (p[1] - c.x1)
        bg == IF MaskBit(MaskRow(screen_mask, row), col) = 1
              THEN DataAt(m2.state.background.data, DataPos(c, p[1], p[2]))
              ELSE 0
    IN  IF MaskBit(MaskRow(cursor_mask, row), col) = 1
        THEN BitXorN(bg, 15, 8)
        ELSE bg

\* "Draw Mousecursor": the loop writing the masked pixels
draw_cursor_pixels(m2, c) ==
    PutPixels(m2, Covered(c), m2.state.page,
              [p \in Covered(c) |->
                  cursor_pixel(
                      m2, c, p,
                      IF m2.state.user_screen_mask
                      THEN m2.state.user_def_screen_mask
                      ELSE default_screen_mask,
                      IF m2.state.user_cursor_mask
                      THEN m2.state.user_def_cursor_mask
                      ELSE default_cursor_mask)])

draw_cursor_area(m1, c, left, top) ==
    draw_cursor_pixels(save_cursor_background(m1, c, left, top), c)

\* MOUSEDOS_DrawCursor after the background is restored; (left, top) is
\* the corner of the cursor before the conversion to int16_t or uint16_t
draw_cursor_corner(m1, left, top) ==
    draw_cursor_area(m1, cursor_area(m1, ToInt16(left), ToInt16(top)),
                     left, top)

draw_cursor_restored(m1, xratio) ==
    draw_cursor_corner(m1, CDiv(get_pos_x(m1), xratio) - m1.state.hot_x,
                       get_pos_y(m1) - m1.state.hot_y)

\* int16_t xratio of MOUSEDOS_DrawCursor
cursor_xratio(swidth) ==
    IF swidth > 0
    THEN (IF ToInt16(CDiv(640, swidth)) = 0 THEN 1
          ELSE ToInt16(CDiv(640, swidth)))
    ELSE 640

\* MOUSEDOS_DrawCursor testing state.hidden only
MOUSEDOS_DrawCursor_Uninhibited(m) ==
    IF m.state.hidden # 0 THEN m
    ELSE IF CurModeType(m.video_mode) = M_TEXT THEN draw_cursor_text(m)
    ELSE draw_cursor_restored(
             restore_cursor_background(
                 [m EXCEPT
                    !.state.clipx = ToInt16(CurModeWidth(m.video_mode) - 1),
                    !.state.clipy = ToInt16(CurModeHeight(m.video_mode) - 1)]),
             cursor_xratio(CurModeWidth(m.video_mode)))

MOUSEDOS_DrawCursor(m) ==
    IF m.state.hidden # 0 \/ m.state.inhibit_draw THEN m
    ELSE IF CurModeType(m.video_mode) = M_TEXT THEN draw_cursor_text(m)
    ELSE draw_cursor_restored(
             restore_cursor_background(
                 [m EXCEPT
                    !.state.clipx = ToInt16(CurModeWidth(m.video_mode) - 1),
                    !.state.clipy = ToInt16(CurModeHeight(m.video_mode) - 1)]),
             cursor_xratio(CurModeWidth(m.video_mode)))

\* ------------------------------------------------------------------------
\* DOS driver interface implementation
\* ------------------------------------------------------------------------
update_driver_active(m) ==
    [m EXCEPT !.active_dos = (m.state.user_callback_mask # 0)]

\* Routines that return a value give [m |-> next state, ret |-> value].
get_reset_wheel_8bit(m) ==
    IF ~m.state.wheel_api THEN [m |-> m, ret |-> 0]
    ELSE [m |-> [m EXCEPT !.counter_w = 0],
          ret |-> signed_to_reg8(m.counter_w)]

get_reset_wheel_16bit(m) ==
    IF ~m.state.wheel_api THEN [m |-> m, ret |-> 0]
    ELSE [m |-> [m EXCEPT !.counter_w = 0],
          ret |-> signed_to_reg16(m.counter_w)]

\* set_mickey_pixel_rate testing the horizontal ratio only
set_mickey_pixel_rate_Unchecked(m, ratio_x, ratio_y) ==
    IF ratio_x > 0
    THEN [m EXCEPT !.state.mickeys_per_pixel_x = ratio_x,
                   !.state.mickeys_per_pixel_y = ratio_y]
    ELSE m

set_mickey_pixel_rate(m, ratio_x, ratio_y) ==
    IF ratio_x > 0 /\ ratio_y > 0
    THEN [m EXCEPT !.state.mickeys_per_pixel_x = ratio_x,
                   !.state.mickeys_per_pixel_y = ratio_y]
    ELSE m

\* set_double_speed_threshold storing 0 as it is
set_double_speed_threshold_Unchecked(m, threshold) ==
    [m EXCEPT !.state.double_speed_threshold = threshold]

set_double_speed_threshold(m, threshold) ==
    IF threshold # 0
    THEN [m EXCEPT !.state.double_speed_threshold = threshold]
    ELSE [m EXCEPT !.state.double_speed_threshold =
                       default_double_speed_threshold]

\* set_sensitivity without the std::min
set_sensitivity_Unclamped(m, sensitivity_x, sensitivity_y, unknown) ==
    [m EXCEPT !.state.sensitivity_x = ToUint8(sensitivity_x),
              !.state.sensitivity_y = ToUint8(sensitivity_y),
              !.state.unknown_01 = ToUint8(unknown),
              !.state.sensitivity_coeff_x = ToUint8(sensitivity_x),
              !.state.sensitivity_coeff_y = ToUint8(sensitivity_y)]

set_sensitivity(m, sensitivity_x, sensitivity_y, unknown) ==
    LET tmp_x == Min(100, sensitivity_x)
        tmp_y == Min(100, sensitivity_y)
        tmp_u == Min(100, unknown)
    IN  [m EXCEPT !.state.sensitivity_x = ToUint8(tmp_x),
                  !.state.sensitivity_y = ToUint8(tmp_y),
                  !.state.unknown_01 = ToUint8(tmp_u),
                  !.state.sensitivity_coeff_x = ToUint8(tmp_x),
                  !.state.sensitivity_coeff_y = ToUint8(tmp_y)]

notify_interface_rate(m) ==
    IF m.rate_is_set THEN [m EXCEPT !.interface_rate = m.rate_hz]
    ELSE IF m.min_rate_hz # 0 THEN [m EXCEPT !.interface_rate = m.min_rate_hz]
    ELSE [m EXCEPT !.interface_rate = rate_default_hz]

\* set_interrupt_rate without the call of notify_interface_rate
set_interrupt_rate_Unnotified(m, rate_id) ==
    LET val_hz == CASE rate_id = 0 -> 0
                    [] rate_id = 1 -> 30
                    [] rate_id = 2 -> 50
                    [] rate_id = 3 -> 100
                    [] OTHER -> 200
    IN  IF val_hz # 0
        THEN [m EXCEPT !.rate_is_set = TRUE, !.rate_hz = val_hz]
        ELSE m

set_interrupt_rate(m, rate_id) ==
    LET val_hz == CASE rate_id = 0 -> 0
                    [] rate_id = 1 -> 30
                    [] rate_id = 2 -> 50
                    [] rate_id = 3 -> 100
                    [] OTHER -> 200
    IN  IF val_hz # 0
        THEN notify_interface_rate(
                 [m EXCEPT !.rate_is_set = TRUE, !.rate_hz = val_hz])
        ELSE m

\* reset_hardware forgetting the minimum rate the user configured
reset_hardware_DropsMinRate(m) ==
    notify_interface_rate(
        [m EXCEPT !.state.wheel_api = FALSE,
                  !.counter_w = 0,
                  !.rate_is_set = FALSE,
                  !.min_rate_hz = 0])

reset_hardware(m) ==
    notify_interface_rate(
        [m EXCEPT !.state.wheel_api = FALSE,
                  !.counter_w = 0,
                  !.rate_is_set = FALSE])

MOUSEDOS_NotifyMinRate(m, value_hz) ==
    LET m1 == [m EXCEPT !.min_rate_hz = value_hz]
    IN  IF m1.rate_is_set THEN m1 ELSE notify_interface_rate(m1)

\* MOUSEDOS_BeforeNewVideoMode leaving the hide counts as they are
BeforeNewVideoMode_KeepsHidden(m) ==
    [(IF CurModeType(m.video_mode) # M_TEXT
      THEN restore_cursor_background(m)
      ELSE restore_cursor_background_text(m))
        EXCEPT !.state.background.enabled = FALSE]

MOUSEDOS_BeforeNewVideoMode(m) ==
    LET m1 == IF CurModeType(m.video_mode) # M_TEXT
              THEN restore_cursor_background(m)
              ELSE restore_cursor_background_text(m)
    IN  [m1 EXCEPT !.state.hidden = 1,
                   !.state.oldhidden = 1,
                   !.state.background.enabled = FALSE]

\* The video modes MOUSEDOS_AfterNewVideoMode handles
SupportedMode(mode) ==
    mode \in {0, 1, 2, 3, 7, 4, 5, 6, 8, 9, 10, 13, 14, 19, 15, 16, 17, 18}

MOUSEDOS_AfterNewVideoMode(m, setmode) ==
    LET mode == m.video_mode
        m1 == [m EXCEPT !.state.inhibit_draw = FALSE,
                        !.state.granularity_x = 65535,
                        !.state.granularity_y = 65535]
        rows0 == BiosRows(mode)
        rows == IF rows0 = 0 \/ rows0 > 250 THEN 24 ELSE rows0
        m2 == CASE mode \in {0, 1, 2, 3, 7} ->
                     [m1 EXCEPT !.state.granularity_x =
                                    IF mode < 2 THEN 65520 ELSE 65528,
                                !.state.granularity_y = 65528,
                                !.state.maxpos_y = ToInt16(8 * (rows + 1) - 1)]
                [] mode \in {4, 5, 6, 8, 9, 10, 13, 14, 19} ->
                     [m1 EXCEPT !.state.granularity_x =
                                    IF mode = 13 \/ mode = 19 THEN 65534
                                    ELSE 65535,
                                !.state.maxpos_y = 199]
                [] mode \in {15, 16} -> [m1 EXCEPT !.state.maxpos_y = 349]
                [] mode \in {17, 18} -> [m1 EXCEPT !.state.maxpos_y = 479]
                [] OTHER -> [m1 EXCEPT !.state.inhibit_draw = TRUE]
    IN  IF ~SupportedMode(mode) THEN m2
        ELSE [m2 EXCEPT !.state.mode = mode,
                        !.state.maxpos_x = 639,
                        !.state.minpos_x = 0,
                        !.state.minpos_y = 0,
                        !.state.hot_x = 0,
                        !.state.hot_y = 0,
                        !.state.user_screen_mask = FALSE,
                        !.state.user_cursor_mask = FALSE,
                        !.state.text_and_mask = default_text_and_mask,
                        !.state.text_xor_mask = default_text_xor_mask,
                        !.state.page = 0,
                        !.state.update_region_y[1] = -1,
                        !.state.cursor_type = CursorSoftware,
                        !.state.enabled = TRUE]

reset(m) ==
    LET m1 == [m EXCEPT !.counter_w = 0,
                        !.pending.x_rel = 0,
                        !.pending.y_rel = 0,
                        !.pending.w_rel = 0]
        m2 == MOUSEDOS_BeforeNewVideoMode(m1)
        m3 == MOUSEDOS_AfterNewVideoMode(m2, FALSE)
        m4 == set_mickey_pixel_rate(m3, 8, 16)
        m5 == set_double_speed_threshold(m4, 0)
        m6 == [m5 EXCEPT
                 !.state.enabled = TRUE,
                 !.pos_x = CDiv(m5.state.maxpos_x + 1, 2) * PosUnit,
                 !.pos_y = CDiv(m5.state.maxpos_y + 1, 2) * PosUnit,
                 !.state.mickey_counter_x = 0,
                 !.state.mickey_counter_y = 0,
                 !.state.mickey_delta_x = 0,
                 !.state.mickey_delta_y = 0,
                 !.state.last_wheel_moved_x = 0,
                 !.state.last_wheel_moved_y = 0,
                 !.state.times_pressed = Zero3,
                 !.state.times_released = Zero3,
                 !.state.last_pressed_x = Zero3,
                 !.state.last_pressed_y = Zero3,
                 !.state.last_released_x = Zero3,
                 !.state.last_released_y = Zero3,
                 !.state.user_callback_mask = 0,
                 !.dos_cb_running = FALSE]
    IN  update_driver_active(m6)

limit(pos, minpos, maxpos) == StdClamp(pos, minpos * PosUnit, maxpos * PosUnit)

limit_coordinates(m) ==
    [m EXCEPT !.pos_x = limit(@, m.state.minpos_x, m.state.maxpos_x),
              !.pos_y = limit(@, m.state.minpos_y, m.state.maxpos_y)]

\* The lambda with a counter that stops at the 16-bit limits
update_Saturating(counter, delta, rel) ==
    LET delta1 == delta + rel
        d == ToInt16(LRound(delta1, MickeyUnit))
    IN  IF d = 0 THEN [counter |-> counter, delta |-> delta1]
        ELSE [counter |-> StdClamp(counter + d, INT16_MIN, INT16_MAX),
              delta |-> delta1 - d * MickeyUnit]

\* The lambda of update_mickeys_on_move: rel and delta in 1/MickeyUnit
update(counter, delta, rel) ==
    LET delta1 == delta + rel
        d == ToInt16(LRound(delta1, MickeyUnit))
        counter_big == counter + d
        wrapped == IF counter_big > INT16_MAX
                   THEN counter_big - (UINT16_MAX + 1)
                   ELSE IF counter_big < INT16_MIN
                   THEN counter_big + (UINT16_MAX + 1)
                   ELSE counter_big
    IN  IF d = 0 THEN [counter |-> counter, delta |-> delta1]
        ELSE [counter |-> ToInt16(wrapped), delta |-> delta1 - d * MickeyUnit]

\* x_rel, y_rel in 1/PosUnit pixel; x_mov = x_rel * mickeys_per_pixel_x
update_mickeys_on_move(m, x_rel, y_rel) ==
    LET x_mov == x_rel * m.state.mickeys_per_pixel_x
        y_mov == y_rel * m.state.mickeys_per_pixel_y
        ux == update(m.state.mickey_counter_x, m.state.mickey_delta_x, x_mov)
        uy == update(m.state.mickey_counter_y, m.state.mickey_delta_y, y_mov)
    IN  [m EXCEPT !.state.mickey_counter_x = ux.counter,
                  !.state.mickey_delta_x = ux.delta,
                  !.state.mickey_counter_y = uy.counter,
                  !.state.mickey_delta_y = uy.delta]

move_cursor_captured(m, x_rel, y_rel) ==
    LET m1 == update_mickeys_on_move(m, x_rel, y_rel)
    IN  [m1 EXCEPT !.pos_x = @ + x_rel, !.pos_y = @ + y_rel]

\* mouse_video.res_x, res_y, clip_x, clip_y: the host display
mouse_video_res_x == 641
mouse_video_res_y == 401
mouse_video_clip_x == 0
mouse_video_clip_y == 0

\* the lambda of move_cursor_seamless, times scale, in 1/PosUnit
calculate(absolute, res, clip, scale) ==
    CDiv((absolute - clip) * scale * PosUnit, res - 1)

\* move_cursor_seamless_pos mapping linearly for large square ranges and
\* adding the relative movement for the others
move_cursor_seamless_pos_Inverted(m1, x_rel, y_rel, x_abs, y_abs) ==
    IF CurModeType(m1.video_mode) = M_TEXT
    THEN [m1 EXCEPT
            !.pos_x = calculate(x_abs, mouse_video_res_x,
                                mouse_video_clip_x,
                                8 * BiosCols(m1.video_mode)),
            !.pos_y = calculate(y_abs, mouse_video_res_y,
                                mouse_video_clip_y,
                                8 * (BiosRows(m1.video_mode) + 1))]
    ELSE IF /\ m1.state.maxpos_x >= 2048
            /\ m1.state.maxpos_y >= 2048
            /\ m1.state.maxpos_x = m1.state.maxpos_y
    THEN IF m1.state.maxpos_x > 0 /\ m1.state.maxpos_y > 0
         THEN [m1 EXCEPT
                 !.pos_x = calculate(x_abs, mouse_video_res_x,
                                     mouse_video_clip_x, m1.state.maxpos_x),
                 !.pos_y = calculate(y_abs, mouse_video_res_y,
                                     mouse_video_clip_y, m1.state.maxpos_y)]
         ELSE [m1 EXCEPT !.pos_x = @ + x_rel, !.pos_y = @ + y_rel]
    ELSE [m1 EXCEPT !.pos_x = @ + x_rel, !.pos_y = @ + y_rel]

\* move_cursor_seamless after the mickey counters are updated
move_cursor_seamless_pos(m1, x_rel, y_rel, x_abs, y_abs) ==
    IF CurModeType(m1.video_mode) = M_TEXT
    THEN [m1 EXCEPT
            !.pos_x = calculate(x_abs, mouse_video_res_x,
                                mouse_video_clip_x,
                                8 * BiosCols(m1.video_mode)),
            !.pos_y = calculate(y_abs, mouse_video_res_y,
                                mouse_video_clip_y,
                                8 * (BiosRows(m1.video_mode) + 1))]
    ELSE IF \/ m1.state.maxpos_x < 2048
            \/ m1.state.maxpos_y < 2048
            \/ m1.state.maxpos_x # m1.state.maxpos_y
    THEN IF m1.state.maxpos_x > 0 /\ m1.state.maxpos_y > 0
         THEN [m1 EXCEPT
                 !.pos_x = calculate(x_abs, mouse_video_res_x,
                                     mouse_video_clip_x, m1.state.maxpos_x),
                 !.pos_y = calculate(y_abs, mouse_video_res_y,
                                     mouse_video_clip_y, m1.state.maxpos_y)]
         ELSE [m1 EXCEPT !.pos_x = @ + x_rel, !.pos_y = @ + y_rel]
    ELSE [m1 EXCEPT !.pos_x = @ + x_rel, !.pos_y = @ + y_rel]

move_cursor_seamless(m, x_rel, y_rel, x_abs, y_abs) ==
    move_cursor_seamless_pos(update_mickeys_on_move(m, x_rel, y_rel),
                             x_rel, y_rel, x_abs, y_abs)

is_captured(m) == m.mouse_is_captured \/ m.is_mapped

MOUSEDOS_NotifyMapped(m, enabled) == [m EXCEPT !.is_mapped = enabled]

\* config_read of mouse_config.cpp: the setting dos_mouse_immediate, which
\* can change while the emulator runs
config_read(m, dos_mouse_immediate) ==
    [m EXCEPT !.dos_immediate = dos_mouse_immediate]

\* pending.x_rel * acceleration_coeff * state.sensitivity_coeff_x, clamped
move_cursor_scaled(rel, acceleration_coeff, sensitivity_coeff) ==
    MOUSE_ClampRelativeMovement(
        CDiv(rel * acceleration_coeff * sensitivity_coeff,
             AccUnit * SensUnit))

\* The captured or seamless branch of move_cursor
move_cursor_branch(m, acceleration_coeff) ==
    IF is_captured(m)
    THEN move_cursor_captured(
             m,
             move_cursor_scaled(m.pending.x_rel, acceleration_coeff,
                                m.state.sensitivity_coeff_x),
             move_cursor_scaled(m.pending.y_rel, acceleration_coeff,
                                m.state.sensitivity_coeff_y))
    ELSE move_cursor_seamless(m, m.pending.x_rel, m.pending.y_rel,
                              m.pending.x_abs, m.pending.y_abs)

\* The end of move_cursor: the event is filtered out if nothing the guest
\* sees has changed between m (before) and m2 (after)
move_cursor_changed(m, m2) ==
    [m |-> m2,
     ret |-> IF \/ get_pos_x(m) # get_pos_x(m2)
                \/ get_pos_y(m) # get_pos_y(m2)
                \/ m.state.mickey_counter_x # m2.state.mickey_counter_x
                \/ m.state.mickey_counter_y # m2.state.mickey_counter_y
             THEN MouseHasMoved
             ELSE 0]

\* acc: the value of MOUSE_GetBallisticsCoeff(..) * 2.0f, in 1/AccUnit,
\* which the speed estimator decides
move_cursor(m, acc) ==
    move_cursor_changed(
        m,
        limit_coordinates(
            [move_cursor_branch(m, IF m.raw_input THEN acc ELSE 2 * AccUnit)
                EXCEPT !.pending.x_rel = 0, !.pending.y_rel = 0]))

MOUSEDOS_UpdateMoved(m, acc) ==
    IF m.dos_immediate THEN [m |-> m, ret |-> MouseHasMoved]
    ELSE move_cursor(m, acc)

Bit(n, i) == (n \div (2 ^ i)) % 2

\* MOUSEDOS_UpdateButtons counting every button held as pressed anew
MOUSEDOS_UpdateButtons_Undiffed(m, new_buttons) ==
    IF m.buttons = new_buttons THEN [m |-> m, ret |-> 0]
    ELSE
    LET pressed(i) == Bit(new_buttons, i) = 1
        released(i) == Bit(new_buttons, i) = 0 /\ Bit(m.buttons, i) = 1
        st == m.state
        st1 == [st EXCEPT
                  !.last_pressed_x =
                      [i \in 0..2 |-> IF pressed(i) THEN get_pos_x(m) ELSE @[i]],
                  !.last_pressed_y =
                      [i \in 0..2 |-> IF pressed(i) THEN get_pos_y(m) ELSE @[i]],
                  !.times_pressed =
                      [i \in 0..2 |-> IF pressed(i) THEN ToUint16(@[i] + 1)
                                      ELSE @[i]],
                  !.last_released_x =
                      [i \in 0..2 |-> IF released(i) THEN get_pos_x(m) ELSE @[i]],
                  !.last_released_y =
                      [i \in 0..2 |-> IF released(i) THEN get_pos_y(m) ELSE @[i]],
                  !.times_released =
                      [i \in 0..2 |-> IF released(i) THEN ToUint16(@[i] + 1)
                                      ELSE @[i]]]
        bit(i) == IF pressed(i) THEN 2 ^ (2 * i + 1)
                  ELSE IF released(i) THEN 2 ^ (2 * i + 2)
                  ELSE 0
    IN  [m |-> [m EXCEPT !.state = st1, !.buttons = new_buttons],
         ret |-> bit(0) + bit(1) + bit(2)]

\* new_buttons: the .data of new_buttons_12S, bits 0..2 left, right, middle
\* MOUSEDOS_UpdateButtons counting the releases of the left button only
MOUSEDOS_UpdateButtons_ReleaseUncounted(m, new_buttons) ==
    IF m.buttons = new_buttons THEN [m |-> m, ret |-> 0]
    ELSE
    LET pressed(i) == Bit(new_buttons, i) = 1 /\ Bit(m.buttons, i) = 0
        released(i) == Bit(new_buttons, i) = 0 /\ Bit(m.buttons, i) = 1
        st == m.state
        st1 == [st EXCEPT
                  !.last_pressed_x =
                      [i \in 0..2 |-> IF pressed(i) THEN get_pos_x(m) ELSE @[i]],
                  !.last_pressed_y =
                      [i \in 0..2 |-> IF pressed(i) THEN get_pos_y(m) ELSE @[i]],
                  !.times_pressed =
                      [i \in 0..2 |-> IF pressed(i) THEN ToUint16(@[i] + 1)
                                      ELSE @[i]],
                  !.last_released_x =
                      [i \in 0..2 |-> IF released(i) THEN get_pos_x(m) ELSE @[i]],
                  !.last_released_y =
                      [i \in 0..2 |-> IF released(i) THEN get_pos_y(m) ELSE @[i]],
                  !.times_released =
                      [i \in 0..2 |-> IF released(i) /\ i = 0
                                      THEN ToUint16(@[i] + 1)
                                      ELSE @[i]]]
        bit(i) == IF pressed(i) THEN 2 ^ (2 * i + 1)
                  ELSE IF released(i) THEN 2 ^ (2 * i + 2)
                  ELSE 0
    IN  [m |-> [m EXCEPT !.state = st1, !.buttons = new_buttons],
         ret |-> bit(0) + bit(1) + bit(2)]

MOUSEDOS_UpdateButtons(m, new_buttons) ==
    IF m.buttons = new_buttons THEN [m |-> m, ret |-> 0]
    ELSE
    LET pressed(i) == Bit(new_buttons, i) = 1 /\ Bit(m.buttons, i) = 0
        released(i) == Bit(new_buttons, i) = 0 /\ Bit(m.buttons, i) = 1
        st == m.state
        st1 == [st EXCEPT
                  !.last_pressed_x =
                      [i \in 0..2 |-> IF pressed(i) THEN get_pos_x(m) ELSE @[i]],
                  !.last_pressed_y =
                      [i \in 0..2 |-> IF pressed(i) THEN get_pos_y(m) ELSE @[i]],
                  !.times_pressed =
                      [i \in 0..2 |-> IF pressed(i) THEN ToUint16(@[i] + 1)
                                      ELSE @[i]],
                  !.last_released_x =
                      [i \in 0..2 |-> IF released(i) THEN get_pos_x(m) ELSE @[i]],
                  !.last_released_y =
                      [i \in 0..2 |-> IF released(i) THEN get_pos_y(m) ELSE @[i]],
                  !.times_released =
                      [i \in 0..2 |-> IF released(i) THEN ToUint16(@[i] + 1)
                                      ELSE @[i]]]
        bit(i) == IF pressed(i) THEN 2 ^ (2 * i + 1)
                  ELSE IF released(i) THEN 2 ^ (2 * i + 2)
                  ELSE 0
    IN  [m |-> [m EXCEPT !.state = st1, !.buttons = new_buttons],
         ret |-> bit(0) + bit(1) + bit(2)]

\* move_wheel with a counter that wraps at 8 bits
move_wheel_Wrapping(m) ==
    LET m1 == [m EXCEPT !.counter_w =
                            ((m.counter_w + m.pending.w_rel + 128) % 256) - 128,
                        !.pending.w_rel = 0,
                        !.state.last_wheel_moved_x = get_pos_x(m),
                        !.state.last_wheel_moved_y = get_pos_y(m)]
    IN  [m |-> m1, ret |-> IF m1.counter_w # 0 THEN WheelHasMoved ELSE 0]

move_wheel(m) ==
    LET m1 == [m EXCEPT !.counter_w = clamp_to_int8(m.counter_w + m.pending.w_rel),
                        !.pending.w_rel = 0,
                        !.state.last_wheel_moved_x = get_pos_x(m),
                        !.state.last_wheel_moved_y = get_pos_y(m)]
    IN  [m |-> m1, ret |-> IF m1.counter_w # 0 THEN WheelHasMoved ELSE 0]

MOUSEDOS_UpdateWheel(m) ==
    IF m.dos_immediate THEN [m |-> m, ret |-> WheelHasMoved]
    ELSE move_wheel(m)

\* A routine returning a uint8_t mask, called where a bool is returned
AsBool(r) == [m |-> r.m, ret |-> r.ret # 0]

\* MOUSEDOS_NotifyMoved after the pending values are updated
\* The end of MOUSEDOS_NotifyMoved moving the cursor in either mode
notify_moved_event_Immediate(m1, event_needed, acc) ==
    IF ~event_needed THEN [m |-> m1, ret |-> FALSE]
    ELSE AsBool(move_cursor(m1, acc))

notify_moved_event(m1, event_needed, acc) ==
    IF ~event_needed THEN [m |-> m1, ret |-> FALSE]
    ELSE IF m1.dos_immediate THEN AsBool(move_cursor(m1, acc))
    ELSE [m |-> m1, ret |-> TRUE]

MOUSEDOS_NotifyMoved(m, x_rel, y_rel, x_abs, y_abs, acc) ==
    notify_moved_event(
        [m EXCEPT
           !.pending.x_rel = MOUSE_ClampRelativeMovement(@ + x_rel),
           !.pending.y_rel = MOUSE_ClampRelativeMovement(@ + y_rel),
           !.pending.x_abs = x_abs,
           !.pending.y_abs = y_abs],
        IF is_captured(m) THEN TRUE
        ELSE m.pending.x_abs # x_abs \/ m.pending.y_abs # y_abs,
        acc)

\* MOUSEDOS_NotifyWheel after the pending value is updated
notify_wheel_event(m1) ==
    IF m1.pending.w_rel = 0 THEN [m |-> m1, ret |-> FALSE]
    ELSE IF m1.dos_immediate THEN AsBool(move_wheel(m1))
    ELSE [m |-> m1, ret |-> TRUE]

\* MOUSEDOS_NotifyWheel without the test of wheel_api
MOUSEDOS_NotifyWheel_Unguarded(m, w_rel) ==
    notify_wheel_event([m EXCEPT !.pending.w_rel = clamp_to_int8(@ + w_rel)])

MOUSEDOS_NotifyWheel(m, w_rel) ==
    IF ~m.state.wheel_api THEN [m |-> m, ret |-> FALSE]
    ELSE notify_wheel_event(
             [m EXCEPT !.pending.w_rel = clamp_to_int8(@ + w_rel)])

\* ------------------------------------------------------------------------
\* Guest memory: the blocks the driver reads and writes, by physical address
\* ------------------------------------------------------------------------
SegPhys(seg) == seg * 16
NoGuestMem == [a \in {} |-> 0]

\* MEM_BlockRead of sizeof(state) bytes: the block last written there
ReadStateBlock(m, addr) ==
    IF addr \in DOMAIN m.guest_mem /\ m.guest_mem[addr].kind = "state"
    THEN m.guest_mem[addr].data
    ELSE DriverStateDefault

\* real_readw: the word last written there, 0 if none was
real_readw(m, seg, off) ==
    IF SegPhys(seg) + off \in DOMAIN m.guest_mem
       /\ m.guest_mem[SegPhys(seg) + off].kind = "word"
    THEN m.guest_mem[SegPhys(seg) + off].data
    ELSE 0

\* MEM_BlockRead of the two 16-word cursor masks
ReadMaskBlock(m, addr) ==
    IF addr \in DOMAIN m.guest_mem /\ m.guest_mem[addr].kind = "masks"
    THEN m.guest_mem[addr].data
    ELSE [screen |-> ZeroMask, cursor |-> ZeroMask]

MEM_BlockWrite(m, addr, block) ==
    [m EXCEPT !.guest_mem =
        [a \in DOMAIN @ \cup {addr} |-> IF a = addr THEN block ELSE @[a]]]

real_writew(m, seg, off, val) ==
    MEM_BlockWrite(m, SegPhys(seg) + off, [kind |-> "word", data |-> val])

\* ------------------------------------------------------------------------
\* Registers
\* ------------------------------------------------------------------------
SetLow(w, v) == (w \div 256) * 256 + v
SetHigh(w, v) == v * 256 + (w % 256)
sizeof_state == 456

\* ------------------------------------------------------------------------
\* int33_handler, one definition per case of the switch
\* ------------------------------------------------------------------------
Int33_21_SoftReset(m) ==
    reset([m EXCEPT !.regs.ax = 65535, !.regs.bx = 3])

Int33_00_Reset(m) == Int33_21_SoftReset(reset_hardware(m))

\* Function 0x01 decrementing the hide count without looking at it
Int33_01_Show_Unchecked(m) ==
    MOUSEDOS_DrawCursor([m EXCEPT !.state.hidden = ToUint16(@ - 1),
                                  !.state.update_region_y[1] = -1])

\* Function 0x01 leaving the update region as it is
Int33_01_Show_KeepsRegion(m) ==
    LET m1 == IF m.state.hidden # 0
              THEN [m EXCEPT !.state.hidden = @ - 1]
              ELSE m
    IN  MOUSEDOS_DrawCursor(m1)

Int33_01_Show(m) ==
    LET m1 == IF m.state.hidden # 0
              THEN [m EXCEPT !.state.hidden = @ - 1]
              ELSE m
    IN  MOUSEDOS_DrawCursor([m1 EXCEPT !.state.update_region_y[1] = -1])

Int33_02_Hide(m) ==
    LET m1 == IF CurModeType(m.video_mode) # M_TEXT
              THEN restore_cursor_background(m)
              ELSE restore_cursor_background_text(m)
    IN  [m1 EXCEPT !.state.hidden = ToUint16(@ + 1)]

Int33_03_GetPosition(m) ==
    LET w == get_reset_wheel_8bit(m)
    IN  [w.m EXCEPT !.regs.bx = SetHigh(SetLow(@, m.buttons), w.ret),
                    !.regs.cx = get_pos_x(w.m),
                    !.regs.dx = get_pos_y(w.m)]

Int33_04_SetPosition(m) ==
    LET m1 == [m EXCEPT
                 !.pos_x = IF reg_to_signed16(m.regs.cx) # get_pos_x(m)
                           THEN m.regs.cx * PosUnit ELSE @,
                 !.pos_y = IF reg_to_signed16(m.regs.dx) # get_pos_y(m)
                           THEN m.regs.dx * PosUnit ELSE @]
    IN  MOUSEDOS_DrawCursor(limit_coordinates(m1))

\* Function 0x05 clearing the press counters of all buttons
Int33_05_ButtonPress_ClearsAll(m) ==
    LET idx == m.regs.bx
    IN  IF idx = 65535 /\ m.state.wheel_api
        THEN LET w == get_reset_wheel_16bit(m)
             IN [w.m EXCEPT !.regs.bx = w.ret,
                            !.regs.cx = m.state.last_wheel_moved_x,
                            !.regs.dx = m.state.last_wheel_moved_y]
        ELSE IF idx < num_buttons
        THEN [m EXCEPT !.regs.ax = m.buttons,
                       !.regs.bx = m.state.times_pressed[idx],
                       !.regs.cx = m.state.last_pressed_x[idx],
                       !.regs.dx = m.state.last_pressed_y[idx],
                       !.state.times_pressed = Zero3]
        ELSE [m EXCEPT !.regs.ax = m.buttons, !.regs.bx = 0,
                       !.regs.cx = 0, !.regs.dx = 0]

Int33_05_ButtonPress(m) ==
    LET idx == m.regs.bx
    IN  IF idx = 65535 /\ m.state.wheel_api
        THEN LET w == get_reset_wheel_16bit(m)
             IN [w.m EXCEPT !.regs.bx = w.ret,
                            !.regs.cx = m.state.last_wheel_moved_x,
                            !.regs.dx = m.state.last_wheel_moved_y]
        ELSE IF idx < num_buttons
        THEN [m EXCEPT !.regs.ax = m.buttons,
                       !.regs.bx = m.state.times_pressed[idx],
                       !.regs.cx = m.state.last_pressed_x[idx],
                       !.regs.dx = m.state.last_pressed_y[idx],
                       !.state.times_pressed[idx] = 0]
        ELSE [m EXCEPT !.regs.ax = m.buttons, !.regs.bx = 0,
                       !.regs.cx = 0, !.regs.dx = 0]

Int33_06_ButtonRelease(m) ==
    LET idx == m.regs.bx
    IN  IF idx = 65535 /\ m.state.wheel_api
        THEN LET w == get_reset_wheel_16bit(m)
             IN [w.m EXCEPT !.regs.bx = w.ret,
                            !.regs.cx = m.state.last_wheel_moved_x,
                            !.regs.dx = m.state.last_wheel_moved_y]
        ELSE IF idx < num_buttons
        THEN [m EXCEPT !.regs.ax = m.buttons,
                       !.regs.bx = m.state.times_released[idx],
                       !.regs.cx = m.state.last_released_x[idx],
                       !.regs.dx = m.state.last_released_y[idx],
                       !.state.times_released[idx] = 0]
        ELSE [m EXCEPT !.regs.ax = m.buttons, !.regs.bx = 0,
                       !.regs.cx = 0, !.regs.dx = 0]

\* Function 0x07 taking CX for the minimum and DX for the maximum
Int33_07_HorizontalRange_InOrder(m) ==
    LET m1 == [m EXCEPT !.state.minpos_x = reg_to_signed16(m.regs.cx),
                        !.state.maxpos_x = reg_to_signed16(m.regs.dx)]
    IN  [m1 EXCEPT !.pos_x = StdClamp(@, m1.state.minpos_x * PosUnit,
                                      m1.state.maxpos_x * PosUnit)]

Int33_07_HorizontalRange(m) ==
    LET a == reg_to_signed16(m.regs.cx)
        b == reg_to_signed16(m.regs.dx)
        m1 == [m EXCEPT !.state.minpos_x = Min(a, b),
                        !.state.maxpos_x = Max(a, b)]
    IN  [m1 EXCEPT !.pos_x = StdClamp(@, m1.state.minpos_x * PosUnit,
                                      m1.state.maxpos_x * PosUnit)]

Int33_08_VerticalRange(m) ==
    LET a == reg_to_signed16(m.regs.cx)
        b == reg_to_signed16(m.regs.dx)
        m1 == [m EXCEPT !.state.minpos_y = Min(a, b),
                        !.state.maxpos_y = Max(a, b)]
    IN  [m1 EXCEPT !.pos_y = StdClamp(@, m1.state.minpos_y * PosUnit,
                                      m1.state.maxpos_y * PosUnit)]

clamp_hot(reg, cursor_size) ==
    StdClamp(reg_to_signed16(reg), -cursor_size, cursor_size)

Int33_09_GraphicsCursor(m) ==
    LET masks == ReadMaskBlock(m, SegPhys(m.regs.es) + m.regs.dx)
    IN  MOUSEDOS_DrawCursor(
            [m EXCEPT !.state.user_def_screen_mask = masks.screen,
                      !.state.user_def_cursor_mask = masks.cursor,
                      !.state.user_screen_mask = TRUE,
                      !.state.user_cursor_mask = TRUE,
                      !.state.hot_x = clamp_hot(m.regs.bx, cursor_size_x),
                      !.state.hot_y = clamp_hot(m.regs.cx, cursor_size_y),
                      !.state.cursor_type = CursorText])

Int33_0a_TextCursor(m) ==
    MOUSEDOS_DrawCursor(
        [m EXCEPT !.state.cursor_type = IF m.regs.bx # 0 THEN CursorHardware
                                        ELSE CursorSoftware,
                  !.state.text_and_mask = m.regs.cx,
                  !.state.text_xor_mask = m.regs.dx])

\* Function 0x0b dropping the sub-mickey remainders as well
Int33_0b_ReadMotion_ClearsDelta(m) ==
    [m EXCEPT !.regs.cx = signed_to_reg16(m.state.mickey_counter_x),
              !.regs.dx = signed_to_reg16(m.state.mickey_counter_y),
              !.state.mickey_counter_x = 0,
              !.state.mickey_counter_y = 0,
              !.state.mickey_delta_x = 0,
              !.state.mickey_delta_y = 0]

Int33_0b_ReadMotion(m) ==
    [m EXCEPT !.regs.cx = signed_to_reg16(m.state.mickey_counter_x),
              !.regs.dx = signed_to_reg16(m.state.mickey_counter_y),
              !.state.mickey_counter_x = 0,
              !.state.mickey_counter_y = 0]

Int33_27_MasksAndMotion(m) ==
    Int33_0b_ReadMotion([m EXCEPT !.regs.ax = m.state.text_and_mask,
                                  !.regs.bx = m.state.text_xor_mask])

Int33_0c_SetCallback(m) ==
    update_driver_active(
        [m EXCEPT !.state.user_callback_mask = m.regs.cx,
                  !.state.user_callback_segment = m.regs.es,
                  !.state.user_callback_offset = m.regs.dx])

Int33_0f_MickeyPixelRate(m) ==
    set_mickey_pixel_rate(m, reg_to_signed16(m.regs.cx),
                          reg_to_signed16(m.regs.dx))

Int33_10_UpdateRegion(m) ==
    MOUSEDOS_DrawCursor(
        [m EXCEPT !.state.update_region_x[0] = reg_to_signed16(m.regs.cx),
                  !.state.update_region_y[0] = reg_to_signed16(m.regs.dx),
                  !.state.update_region_x[1] = reg_to_signed16(m.regs.si),
                  !.state.update_region_y[1] = reg_to_signed16(m.regs.di)])

Int33_11_WheelApi(m) ==
    [m EXCEPT !.regs.ax = 22349, !.regs.bx = 0, !.regs.cx = 1,
              !.state.wheel_api = TRUE, !.counter_w = 0]

Int33_13_DoubleSpeed(m) == set_double_speed_threshold(m, m.regs.bx)

\* Function 0x14 without the call of update_driver_active
Int33_14_ExchangeCallback_StaleActive(m) ==
    LET m1 == [m EXCEPT !.state.user_callback_mask = m.regs.cx,
                        !.state.user_callback_segment = m.regs.es,
                        !.state.user_callback_offset = m.regs.dx]
    IN  [m1 EXCEPT !.regs.cx = m.state.user_callback_mask,
                   !.regs.dx = m.state.user_callback_offset,
                   !.regs.es = m.state.user_callback_segment]

\* Function 0x14 returning the registration it has just stored
Int33_14_ExchangeCallback_ReturnsNew(m) ==
    update_driver_active(
        [m EXCEPT !.state.user_callback_mask = m.regs.cx,
                  !.state.user_callback_segment = m.regs.es,
                  !.state.user_callback_offset = m.regs.dx])

Int33_14_ExchangeCallback(m) ==
    LET m1 == update_driver_active(
                  [m EXCEPT !.state.user_callback_mask = m.regs.cx,
                            !.state.user_callback_segment = m.regs.es,
                            !.state.user_callback_offset = m.regs.dx])
    IN  [m1 EXCEPT !.regs.cx = m.state.user_callback_mask,
                   !.regs.dx = m.state.user_callback_offset,
                   !.regs.es = m.state.user_callback_segment]

Int33_15_StorageSize(m) == [m EXCEPT !.regs.bx = sizeof_state]

Int33_16_SaveState(m) ==
    MEM_BlockWrite(m, SegPhys(m.regs.es) + m.regs.dx,
                   [kind |-> "state", data |-> m.state])

\* Function 0x17 without the call of update_driver_active
Int33_17_LoadState_StaleActive(m) ==
    LET m1 == [m EXCEPT
                 !.state = ReadStateBlock(m, SegPhys(m.regs.es) + m.regs.dx),
                 !.pending.x_rel = 0,
                 !.pending.y_rel = 0,
                 !.pending.w_rel = 0]
    IN  set_sensitivity(m1, m1.state.sensitivity_x, m1.state.sensitivity_y,
                        m1.state.unknown_01)

Int33_17_LoadState(m) ==
    LET m1 == [m EXCEPT
                 !.state = ReadStateBlock(m, SegPhys(m.regs.es) + m.regs.dx),
                 !.pending.x_rel = 0,
                 !.pending.y_rel = 0,
                 !.pending.w_rel = 0]
        m2 == update_driver_active(m1)
    IN  set_sensitivity(m2, m2.state.sensitivity_x, m2.state.sensitivity_y,
                        m2.state.unknown_01)

Int33_1a_SetSensitivity(m) ==
    set_sensitivity(m, m.regs.bx, m.regs.cx, m.regs.dx)

Int33_1b_GetSensitivity(m) ==
    [m EXCEPT !.regs.bx = m.state.sensitivity_x,
              !.regs.cx = m.state.sensitivity_y,
              !.regs.dx = m.state.unknown_01]

Int33_1c_InterruptRate(m) == set_interrupt_rate(m, m.regs.bx)

Int33_1d_SetPage(m) == [m EXCEPT !.state.page = m.regs.bx % 256]

Int33_1e_GetPage(m) == [m EXCEPT !.regs.bx = m.state.page]

Int33_1f_Disable(m) ==
    [m EXCEPT !.regs.bx = 0, !.regs.es = 0,
              !.state.enabled = FALSE,
              !.state.oldhidden = m.state.hidden,
              !.state.hidden = 1]

Int33_20_Enable(m) ==
    [m EXCEPT !.state.enabled = TRUE, !.state.hidden = m.state.oldhidden]

Int33_22_SetLanguage(m) == [m EXCEPT !.state.language = m.regs.bx]

Int33_23_GetLanguage(m) == [m EXCEPT !.regs.bx = m.state.language]

Int33_24_Version(m) == [m EXCEPT !.regs.bx = 2053, !.regs.cx = 1024]

Int33_26_MaxCoordinates(m) ==
    [m EXCEPT !.regs.bx = IF m.state.enabled THEN 0 ELSE 65535,
              !.regs.cx = signed_to_reg16(m.state.maxpos_x),
              !.regs.dx = signed_to_reg16(m.state.maxpos_y)]

Int33_2a_HotSpot(m) ==
    [m EXCEPT !.regs.ax = SetLow(@, ToUint8(0 - m.state.hidden)),
              !.regs.bx = signed_to_reg16(m.state.hot_x),
              !.regs.cx = signed_to_reg16(m.state.hot_y),
              !.regs.dx = 4]

Int33_31_MinMaxCoordinates(m) ==
    [m EXCEPT !.regs.ax = signed_to_reg16(m.state.minpos_x),
              !.regs.bx = signed_to_reg16(m.state.minpos_y),
              !.regs.cx = signed_to_reg16(m.state.maxpos_x),
              !.regs.dx = signed_to_reg16(m.state.maxpos_y)]

\* An unimplemented function answering with the failure code in AX
Int33_Unimplemented_Failing(m) == [m EXCEPT !.regs.ax = 65535]

\* The functions that are only logged, and the default case
Int33_Unimplemented(m) == m

int33_handler(m) ==
    LET ax == m.regs.ax
    IN  CASE ax = 0 -> Int33_00_Reset(m)
          [] ax = 33 -> Int33_21_SoftReset(m)
          [] ax = 1 -> Int33_01_Show(m)
          [] ax = 2 -> Int33_02_Hide(m)
          [] ax = 3 -> Int33_03_GetPosition(m)
          [] ax = 4 -> Int33_04_SetPosition(m)
          [] ax = 5 -> Int33_05_ButtonPress(m)
          [] ax = 6 -> Int33_06_ButtonRelease(m)
          [] ax = 7 -> Int33_07_HorizontalRange(m)
          [] ax = 8 -> Int33_08_VerticalRange(m)
          [] ax = 9 -> Int33_09_GraphicsCursor(m)
          [] ax = 10 -> Int33_0a_TextCursor(m)
          [] ax = 39 -> Int33_27_MasksAndMotion(m)
          [] ax = 11 -> Int33_0b_ReadMotion(m)
          [] ax = 12 -> Int33_0c_SetCallback(m)
          [] ax = 15 -> Int33_0f_MickeyPixelRate(m)
          [] ax = 16 -> Int33_10_UpdateRegion(m)
          [] ax = 17 -> Int33_11_WheelApi(m)
          [] ax = 19 -> Int33_13_DoubleSpeed(m)
          [] ax = 20 -> Int33_14_ExchangeCallback(m)
          [] ax = 21 -> Int33_15_StorageSize(m)
          [] ax = 22 -> Int33_16_SaveState(m)
          [] ax = 23 -> Int33_17_LoadState(m)
          [] ax = 26 -> Int33_1a_SetSensitivity(m)
          [] ax = 27 -> Int33_1b_GetSensitivity(m)
          [] ax = 28 -> Int33_1c_InterruptRate(m)
          [] ax = 29 -> Int33_1d_SetPage(m)
          [] ax = 30 -> Int33_1e_GetPage(m)
          [] ax = 31 -> Int33_1f_Disable(m)
          [] ax = 32 -> Int33_20_Enable(m)
          [] ax = 34 -> Int33_22_SetLanguage(m)
          [] ax = 35 -> Int33_23_GetLanguage(m)
          [] ax = 36 -> Int33_24_Version(m)
          [] ax = 38 -> Int33_26_MaxCoordinates(m)
          [] ax = 42 -> Int33_2a_HotSpot(m)
          [] ax = 49 -> Int33_31_MinMaxCoordinates(m)
          [] OTHER -> Int33_Unimplemented(m)

\* ------------------------------------------------------------------------
\* Guest callback
\* ------------------------------------------------------------------------
\* RealSeg(user_callback), RealOff(user_callback): the return trampoline
user_callback_seg == 61440
user_callback_off == 4660

Push16(stack, w) == <<w>> \o stack

\* The trampoline leaving the flag as it is
user_callback_handler_KeepsGuard(m) == m

user_callback_handler(m) == [m EXCEPT !.dos_cb_running = FALSE]

MOUSEDOS_HasCallback(m, mask) == BitAnd(m.state.user_callback_mask, mask) # 0

\* MOUSEDOS_DoCallback pushing the guest's handler before the trampoline
MOUSEDOS_DoCallback_HandlerFirst(m, mask, buttons_12S) ==
    LET m1 == [m EXCEPT !.dos_cb_running = TRUE]
        mouse_moved == BitAnd(mask, MouseHasMoved) # 0
        wheel_moved == BitAnd(mask, WheelHasMoved) # 0
        ah == IF ~is_captured(m1) /\ mouse_moved THEN 1 ELSE 0
        w == IF wheel_moved THEN get_reset_wheel_8bit(m1)
             ELSE [m |-> m1, ret |-> 0]
        m2 == w.m
    IN  [m2 EXCEPT
           !.regs.ax = SetLow(SetHigh(@, ah), mask),
           !.regs.bx = SetHigh(SetLow(@, buttons_12S), w.ret),
           !.regs.cx = get_pos_x(m2),
           !.regs.dx = get_pos_y(m2),
           !.regs.si = signed_to_reg16(m2.state.mickey_counter_x),
           !.regs.di = signed_to_reg16(m2.state.mickey_counter_y),
           !.guest_stack =
               Push16(Push16(Push16(Push16(@, m2.state.user_callback_segment),
                                    m2.state.user_callback_offset),
                             user_callback_seg),
                      user_callback_off)]

\* buttons_12S: the .data of the buttons at the time of the event
MOUSEDOS_DoCallback(m, mask, buttons_12S) ==
    LET m1 == [m EXCEPT !.dos_cb_running = TRUE]
        mouse_moved == BitAnd(mask, MouseHasMoved) # 0
        wheel_moved == BitAnd(mask, WheelHasMoved) # 0
        ah == IF ~is_captured(m1) /\ mouse_moved THEN 1 ELSE 0
        w == IF wheel_moved THEN get_reset_wheel_8bit(m1)
             ELSE [m |-> m1, ret |-> 0]
        m2 == w.m
    IN  [m2 EXCEPT
           !.regs.ax = SetLow(SetHigh(@, ah), mask),
           !.regs.bx = SetHigh(SetLow(@, buttons_12S), w.ret),
           !.regs.cx = get_pos_x(m2),
           !.regs.dx = get_pos_y(m2),
           !.regs.si = signed_to_reg16(m2.state.mickey_counter_x),
           !.regs.di = signed_to_reg16(m2.state.mickey_counter_y),
           !.guest_stack =
               Push16(Push16(Push16(Push16(@, user_callback_seg),
                                    user_callback_off),
                             m2.state.user_callback_segment),
                      m2.state.user_callback_offset)]

\* ------------------------------------------------------------------------
\* Initialisation
\* ------------------------------------------------------------------------
\* The program before MOUSEDOS_Init, in video mode `mode`
Constructed(mode) ==
    [ state |-> DriverStateDefault, buttons |-> 0, pos_x |-> 0, pos_y |-> 0,
      counter_w |-> 0, is_mapped |-> FALSE, raw_input |-> TRUE,
      rate_is_set |-> FALSE, rate_hz |-> 0, min_rate_hz |-> 0,
      pending |-> PendingDefault, dos_cb_running |-> FALSE,
      active_dos |-> FALSE, dos_immediate |-> FALSE,
      mouse_is_captured |-> TRUE, regs |-> RegsDefault,
      guest_stack |-> <<>>, guest_mem |-> NoGuestMem,
      video_mode |-> mode, text_screen |-> EmptyScreen,
      gfx_screen |-> EmptyScreen,
      crtc_cursor |-> 0, interface_rate |-> 0 ]

MOUSEDOS_Init(m) ==
    LET m1 == [m EXCEPT !.state.user_callback_segment =
                            user_callback_segment_magic,
                        !.state.hidden = 1,
                        !.state.mode = 255]
        m2 == set_sensitivity(m1, 50, 50, 50)
    IN  reset(reset_hardware(m2))

\* ------------------------------------------------------------------------
\* The backdoor entry: the caller's DS and the four offsets found on its
\* stack (pt.ax, pt.bx, pt.cx, pt.dx) locate the register shadow words
\* ------------------------------------------------------------------------
\* mouse_bd_handler: the registers are read from the shadow words
bd_read_registers(m, ds, pt) ==
    [m EXCEPT !.regs.ax = real_readw(m, ds, pt.ax),
              !.regs.bx = real_readw(m, ds, pt.bx),
              !.regs.cx = real_readw(m, ds, pt.cx),
              !.regs.dx = real_readw(m, ds, pt.dx)]

\* mouse_bd_handler: functions that take further registers
bd_extra_registers(m, ds, pt, rax) ==
    IF rax \in {9, 22, 23} THEN [m EXCEPT !.regs.es = ds]
    ELSE IF rax \in {12, 20}
    THEN [m EXCEPT !.regs.es = IF m.regs.bx # 0 THEN m.regs.bx ELSE ds]
    ELSE IF rax = 16
    THEN [m EXCEPT !.regs.cx = real_readw(m, ds, pt.dx),
                   !.regs.dx = real_readw(m, ds, (pt.dx + 2) % 65536),
                   !.regs.si = real_readw(m, ds, (pt.dx + 4) % 65536),
                   !.regs.di = real_readw(m, ds, (pt.dx + 6) % 65536)]
    ELSE m

\* mouse_bd_handler: the four registers are written to the shadow words
bd_write_registers(m, ds, pt) ==
    real_writew(
        real_writew(
            real_writew(
                real_writew(m, ds, pt.ax, m.regs.ax),
                ds, pt.bx, m.regs.bx),
            ds, pt.cx, m.regs.cx),
        ds, pt.dx, m.regs.dx)

\* mouse_bd_handler: functions that return a segment
bd_write_segment(m, ds, pt, rax) ==
    IF rax = 31 THEN real_writew(m, ds, pt.bx, m.regs.es)
    ELSE IF rax = 20 THEN real_writew(m, ds, pt.cx, m.regs.es)
    ELSE m

mouse_bd_handler(m, ds, pt) ==
    bd_write_segment(
        bd_write_registers(
            int33_handler(
                bd_extra_registers(bd_read_registers(m, ds, pt), ds, pt,
                                   real_readw(m, ds, pt.ax))),
            ds, pt),
        ds, pt, real_readw(m, ds, pt.ax))

\* ------------------------------------------------------------------------
\* Callers of the driver outside this file: the interrupt entry, the host
\* event path and the video BIOS
\* ------------------------------------------------------------------------
\* The guest loads the registers and executes INT 33h
WithRegs(m, ax, bx, cx, dx, si, di, es) ==
    [m EXCEPT !.regs = [ax |-> ax, bx |-> bx, cx |-> cx, dx |-> dx,
                        si |-> si, di |-> di, es |-> es]]

\* Callbacks started by MOUSEDOS_DoCallback whose handler has not yet
\* returned through the trampoline: four words are on the stack for each.
InFlight(m) == Len(m.guest_stack) \div 4

\* A pending event becomes a guest notification only if its mask meets the
\* registered mask and no callback is in flight.
CanDeliver(m, mask) == MOUSEDOS_HasCallback(m, mask) /\ ~m.dos_cb_running

DeliverEvent(m, mask) ==
    IF CanDeliver(m, mask) THEN MOUSEDOS_DoCallback(m, mask, m.buttons)
    ELSE m

\* The guest handler returns (RETF) into the trampoline
ReturnFromCallback(m) ==
    user_callback_handler([m EXCEPT !.guest_stack = SubSeq(@, 5, Len(@))])

\* INT10_SetVideoMode: the old cursor is torn down, the mode byte is
\* stored, the screen is cleared, the cursor geometry is rebuilt
SetVideoMode(m, mode) ==
    LET m1 == MOUSEDOS_BeforeNewVideoMode(m)
        m2 == [m1 EXCEPT !.video_mode = mode,
                         !.text_screen = EmptyScreen,
                         !.gfx_screen = EmptyScreen]
    IN  MOUSEDOS_AfterNewVideoMode(m2, TRUE)

\* ------------------------------------------------------------------------
\* Bounds of the model
\* ------------------------------------------------------------------------
\* Hide (0x02) is not called with the hide count at this value
MaxHidden == 2
\* No event is delivered with this many callbacks in flight
MaxInFlight == 2
\* In SpecReset the guest and the host do nothing but resets after this
\* many other operations
MaxOps == 3
\* In SpecCallback: the same, counting from the start
MaxCallbackOps == 4
\* In SpecMickey: the same
MaxMickeyOps == 4
\* In SpecRange and SpecPosition: the same
MaxRangeOps == 3
\* In SpecSaveLoad: the same
MaxSaveOps == 4
\* In SpecWheel: the same
MaxWheelOps == 4
\* In SpecButtons: the same
MaxButtonOps == 3
\* In SpecHandler: the same
MaxHandlerOps == 4
\* In SpecBackdoor: the same
MaxBackdoorOps == 3
\* In SpecSensitivity: the same
MaxSensOps == 4
\* In SpecRate: the same
MaxRateOps == 4
\* In SpecUnimplemented: the same
MaxUnimplOps == 3
\* In SpecDraw: the same
MaxDrawOps == 4
\* In SpecRatio: the same
MaxRatioOps == 4
\* In SpecQueue: the same
MaxQueueOps == 4
\* In SpecSeamless: the same
MaxSeamlessOps == 5
\* In SpecTeardown: the same
MaxTeardownOps == 4
\* In SpecGfx: the same
MaxGfxOps == 5
\* In SpecImmediate: the same
MaxImmediateOps == 4
\* In SpecEvents: the same
MaxEventOps == 4
\* In SpecThreshold: the same
MaxThresholdOps == 4
\* In SpecPairing: the same
MaxPairOps == 4
\* In SpecShow: the same
MaxShowOps == 4
\* The operation count hist.ops stops at the largest of these
OpsCap ==
    Max(MaxShowOps,
    Max(MaxPairOps,
    Max(MaxThresholdOps,
    Max(MaxEventOps,
    Max(MaxImmediateOps,
    Max(MaxGfxOps,
    Max(MaxTeardownOps,
    Max(Max(Max(Max(MaxOps, MaxSeamlessOps), MaxCallbackOps), Max(MaxMickeyOps, MaxRangeOps)),
        Max(Max(MaxSaveOps, MaxWheelOps), Max(Max(MaxButtonOps, MaxSensOps),
                Max(Max(Max(MaxHandlerOps, MaxRatioOps),
                        Max(MaxUnimplOps, Max(MaxDrawOps, MaxQueueOps))),
                    Max(MaxBackdoorOps, MaxRateOps))))))))))))

\* ------------------------------------------------------------------------
\* History kept for the properties
\* ------------------------------------------------------------------------
Wrap16(v) == ((v + 32768) % 65536) - 32768

\* The mickey displacement (in 1/MickeyUnit) move_cursor hands to the two
\* counters when it consumes the pending movement of m
ConsumedMov(m, acc) ==
    LET coeff == IF m.raw_input THEN acc ELSE 2 * AccUnit
        tmp_x == CDiv(m.pending.x_rel * coeff * m.state.sensitivity_coeff_x,
                      AccUnit * SensUnit)
        tmp_y == CDiv(m.pending.y_rel * coeff * m.state.sensitivity_coeff_y,
                      AccUnit * SensUnit)
        x_rel == IF is_captured(m) THEN MOUSE_ClampRelativeMovement(tmp_x)
                 ELSE m.pending.x_rel
        y_rel == IF is_captured(m) THEN MOUSE_ClampRelativeMovement(tmp_y)
                 ELSE m.pending.y_rel
    IN  [x |-> x_rel * m.state.mickeys_per_pixel_x,
         y |-> y_rel * m.state.mickeys_per_pixel_y]

\* hist.pre    the program state in which the last operation started (for
\*             an INT 33h call: with the registers as the guest loaded them)
\* hist.vx/vy  the sum of the mickey displacements consumed since the
\*             counters were last zeroed (reset, 0x0b/0x27, 0x17)
\* hist.vint   all of these displacements were whole mickeys, and the
\*             counters were zeroed by a reset or a read, not loaded
\* hist.vzero  the sub-mickey remainders were 0 when the counters were last
\*             zeroed, and every displacement since fits in 16 bits
\* hist.saved  for each address function 0x16 wrote to: struct state as it
\*             was at the latest such call
\* hist.ops    the number of operations other than resets (0x00, 0x21) so
\*             far, counted up to OpsCap
\* hist.w11    function 0x11 was called since the last function 0x00
\* hist.wsrc   function 0x11, or a function 0x17 reading a block with
\*             wheel_api set, was called since the last function 0x00
\* hist.reg0   the handler registration (mask, offset, segment) the latest
\*             function 0x0c or 0x14 stored, its mask 0 after a reset
\* hist.reg    the same, replaced by the registration a function 0x17 loads
\* hist.reg0was, hist.regwas   hist.reg0, hist.reg before the last operation
\* hist.hid    state.hidden before the latest function 0x1f that found the
\*             driver enabled
\* The handler registration held in struct state
Registration(m) ==
    [mask |-> m.state.user_callback_mask,
     offset |-> m.state.user_callback_offset,
     segment |-> m.state.user_callback_segment]

HistInit(m) ==
    [pre |-> m, vx |-> 0, vy |-> 0, vint |-> TRUE,
     vzero |-> (m.state.mickey_delta_x = 0 /\ m.state.mickey_delta_y = 0),
     saved |-> NoGuestMem, ops |-> 0, w11 |-> FALSE, wsrc |-> FALSE,
     reg0 |-> Registration(m), reg |-> Registration(m),
     reg0was |-> Registration(m), regwas |-> Registration(m),
     hid |-> m.state.hidden]

HistNext(h, pre, post, op, args) ==
    LET ax == IF op = "int33" THEN args[1] ELSE -1
        zeroing == ax \in {0, 33, 11, 39, 23}
        moved == /\ op = "HostMoved"
                 /\ \/ is_captured(pre)
                    \/ pre.pending.x_abs # args[3]
                    \/ pre.pending.y_abs # args[4]
        mid == [pre EXCEPT
                  !.pending.x_rel = MOUSE_ClampRelativeMovement(@ + args[1]),
                  !.pending.y_rel = MOUSE_ClampRelativeMovement(@ + args[2])]
        mov == ConsumedMov(mid, args[5])
        addr == SegPhys(pre.regs.es) + pre.regs.dx
    IN  [pre |-> pre,
         vx |-> IF zeroing THEN 0
                ELSE IF moved THEN h.vx + mov.x \div MickeyUnit ELSE h.vx,
         vy |-> IF zeroing THEN 0
                ELSE IF moved THEN h.vy + mov.y \div MickeyUnit ELSE h.vy,
         vint |-> IF ax = 23 THEN FALSE
                  ELSE IF zeroing THEN TRUE
                  ELSE IF moved
                  THEN /\ h.vint
                       /\ mov.x % MickeyUnit = 0
                       /\ mov.y % MickeyUnit = 0
                  ELSE h.vint,
         vzero |-> IF zeroing
                   THEN /\ post.state.mickey_delta_x = 0
                        /\ post.state.mickey_delta_y = 0
                   ELSE IF moved
                   THEN /\ h.vzero
                        /\ Abs(mov.x) <= INT16_MAX * MickeyUnit
                        /\ Abs(mov.y) <= INT16_MAX * MickeyUnit
                   ELSE h.vzero,
         saved |-> IF ax = 22
                   THEN [a \in DOMAIN h.saved \cup {addr} |->
                           IF a = addr THEN pre.state ELSE h.saved[a]]
                   ELSE h.saved,
         ops |-> IF ax \notin {0, 33} /\ h.ops < OpsCap THEN h.ops + 1
                ELSE h.ops,
         w11 |-> IF ax = 17 THEN TRUE ELSE IF ax = 0 THEN FALSE ELSE h.w11,
         wsrc |-> IF ax = 17 THEN TRUE
                  ELSE IF ax = 0 THEN FALSE
                  ELSE IF ax = 23 THEN h.wsrc \/ post.state.wheel_api
                  ELSE h.wsrc,
         reg0 |-> IF ax \in {12, 20}
                  THEN [mask |-> args[3], offset |-> args[4],
                        segment |-> args[7]]
                  ELSE IF ax \in {0, 33} THEN [h.reg0 EXCEPT !.mask = 0]
                  ELSE h.reg0,
         reg |-> IF ax \in {12, 20}
                 THEN [mask |-> args[3], offset |-> args[4],
                       segment |-> args[7]]
                 ELSE IF ax \in {0, 33} THEN [h.reg EXCEPT !.mask = 0]
                 ELSE IF ax = 23 THEN Registration(post)
                 ELSE h.reg,
         reg0was |-> h.reg0,
         regwas |-> h.reg,
         hid |-> IF ax = 31 /\ pre.state.enabled THEN pre.state.hidden
                 ELSE h.hid]

\* One operation: from pre (the current state, inputs loaded) to post
Step(op, args, pre, post, ret) ==
    /\ Commit(post)
    /\ last' = [op |-> op, a |-> args, ret |-> ret]
    /\ hist' = HistNext(hist, pre, post, op, args)

Int33(ax, bx, cx, dx, si, di, es) ==
    LET pre == WithRegs(M, ax, bx, cx, dx, si, di, es)
    IN  Step("int33", <<ax, bx, cx, dx, si, di, es>>, pre,
             int33_handler(pre), 0)

\* An operation returning a value: r.m is the state after it, r.ret the value
StepRet(op, args, pre, r) == Step(op, args, pre, r.m, r.ret)

\* The event queue hands a consumed event with mask u.ret to the guest
Delivered(u) == [m |-> DeliverEvent(u.m, u.ret), ret |-> u.ret]

\* The host reports a movement (n is what MOUSEDOS_NotifyMoved returned);
\* if an event is due it is consumed and delivered
ConsumeMoved(n, acc) ==
    IF n.ret THEN Delivered(MOUSEDOS_UpdateMoved(n.m, acc))
    ELSE [m |-> n.m, ret |-> 0]

HostMovedStep(x_rel, y_rel, x_abs, y_abs, acc) ==
    StepRet("HostMoved", <<x_rel, y_rel, x_abs, y_abs, acc>>, M,
            ConsumeMoved(
                MOUSEDOS_NotifyMoved(M, x_rel, y_rel, x_abs, y_abs, acc),
                acc))

\* The host reports wheel ticks (n is what MOUSEDOS_NotifyWheel returned)
ConsumeWheel(n) ==
    IF n.ret THEN Delivered(MOUSEDOS_UpdateWheel(n.m))
    ELSE [m |-> n.m, ret |-> 0]

HostWheelStep(w_rel) ==
    StepRet("HostWheel", <<w_rel>>, M,
            ConsumeWheel(MOUSEDOS_NotifyWheel(M, w_rel)))

\* The host reports the buttons held down
HostButtonsStep(new_buttons) ==
    StepRet("HostButtons", <<new_buttons>>, M,
            Delivered(MOUSEDOS_UpdateButtons(M, new_buttons)))

VideoModeStep(mode) ==
    Step("SetVideoMode", <<mode>>, M, SetVideoMode(M, mode), 0)

CallbackReturnStep ==
    /\ InFlight(M) > 0
    /\ Step("ReturnFromCallback", <<>>, M, ReturnFromCallback(M), 0)

InitWith(m) ==
    /\ state = m.state
    /\ buttons = m.buttons
    /\ pos_x = m.pos_x
    /\ pos_y = m.pos_y
    /\ counter_w = m.counter_w
    /\ is_mapped = m.is_mapped
    /\ raw_input = m.raw_input
    /\ rate_is_set = m.rate_is_set
    /\ rate_hz = m.rate_hz
    /\ min_rate_hz = m.min_rate_hz
    /\ pending = m.pending
    /\ dos_cb_running = m.dos_cb_running
    /\ active_dos = m.active_dos
    /\ dos_immediate = m.dos_immediate
    /\ mouse_is_captured = m.mouse_is_captured
    /\ regs = m.regs
    /\ guest_stack = m.guest_stack
    /\ guest_mem = m.guest_mem
    /\ video_mode = m.video_mode
    /\ text_screen = m.text_screen
    /\ gfx_screen = m.gfx_screen
    /\ crtc_cursor = m.crtc_cursor
    /\ interface_rate = m.interface_rate
    /\ last = [op |-> "init", a |-> <<>>, ret |-> 0]
    /\ hist = HistInit(m)

LastInt33(axs) == last.op = "int33" /\ last.a[1] \in axs

\* ------------------------------------------------------------------------
\* Specification Spec: the driver lifecycle (show, hide, enable, disable,
\* reset, video mode changes)
\* ------------------------------------------------------------------------
Init == InitWith(MOUSEDOS_Init(Constructed(3)))

Show ==
    /\ Int33(1, 0, 0, 0, 0, 0, 0)

Hide == state.hidden < MaxHidden /\ Int33(2, 0, 0, 0, 0, 0, 0)

HardReset ==
    /\ Int33(0, 0, 0, 0, 0, 0, 0)

SoftReset ==
    /\ Int33(33, 0, 0, 0, 0, 0, 0)

Disable ==
    /\ Int33(31, 0, 0, 0, 0, 0, 0)

Enable ==
    /\ Int33(32, 0, 0, 0, 0, 0, 0)

VideoMode ==
    /\ \E mode \in {3, 19, 106} : VideoModeStep(mode)

Next ==
    \/ Show
    \/ Hide
    \/ HardReset
    \/ SoftReset
    \/ Disable
    \/ Enable
    \/ VideoMode

Spec == Init /\ [][Next]_vars

\* ------------------------------------------------------------------------
\* Properties of the lifecycle
\* ------------------------------------------------------------------------
\* C5: show (0x01) decrements the hide count only when it is nonzero, so
\* the count never underflows; a show with the count at 1 or at 0 ends
\* with the count at 0 and, unless drawing is inhibited, the cursor drawn.
C5_ShowHideBalance ==
    LastInt33({1}) =>
        LET before == hist.pre.state.hidden
        IN  /\ state.hidden = (IF before # 0 THEN before - 1 ELSE 0)
            /\ before <= 1 =>
                  /\ state.hidden = 0
                  /\ ~state.inhibit_draw => state.background.enabled

\* A second show with no hide in between: the count stays 0, cursor drawn
C5_Witness ==
    /\ LastInt33({1})
    /\ hist.pre.state.hidden = 0
    /\ hist.pre.state.background.enabled
    /\ state.hidden = 0
    /\ state.background.enabled

\* ------------------------------------------------------------------------
\* Specification SpecReset: resets (0x00, 0x21) at any time among a few
\* other operations of the guest and the host
\* ------------------------------------------------------------------------
R_Show ==
    /\ hist.ops < MaxOps
    /\ Int33(1, 0, 0, 0, 0, 0, 0)

R_Disable ==
    /\ hist.ops < MaxOps
    /\ Int33(31, 0, 0, 0, 0, 0, 0)

R_SetCallback ==
    /\ hist.ops < MaxOps
    /\ Int33(12, 0, 127, 256, 0, 0, 4096)

R_WheelApi ==
    /\ hist.ops < MaxOps
    /\ Int33(17, 0, 0, 0, 0, 0, 0)

R_InterruptRate ==
    /\ hist.ops < MaxOps
    /\ Int33(28, 2, 0, 0, 0, 0, 0)

R_MinRate ==
    /\ hist.ops < MaxOps
    /\ Step("NotifyMinRate", <<100>>, M, MOUSEDOS_NotifyMinRate(M, 100), 0)

R_VideoMode ==
    /\ hist.ops < MaxOps
    /\ \E mode \in {19, 106} : VideoModeStep(mode)

\* One wheel tick, consumed and delivered
R_HostWheel ==
    /\ hist.ops < MaxOps
    /\ InFlight(M) < MaxInFlight
    /\ HostWheelStep(1)

\* A movement of 4 pixels to the right, consumed and delivered
R_HostMoved ==
    /\ hist.ops < MaxOps
    /\ InFlight(M) < MaxInFlight
    /\ HostMovedStep(4 * PosUnit, 0, 0, 0, AccUnit)

\* A movement reported by the host and not yet consumed
R_HostMovedQueued ==
    /\ hist.ops < MaxOps
    /\ Step("NotifyMoved", <<3 * PosUnit>>, M,
            MOUSEDOS_NotifyMoved(M, 3 * PosUnit, 0, 0, 0, AccUnit).m, 0)

\* The left button goes down or up
R_HostButtons ==
    /\ hist.ops < MaxOps
    /\ InFlight(M) < MaxInFlight
    /\ HostButtonsStep(1 - buttons)

\* The guest handler returns
R_CallbackReturn ==
    /\ hist.ops < MaxOps
    /\ CallbackReturnStep

NextReset ==
    \/ R_CallbackReturn
    \/ HardReset
    \/ SoftReset
    \/ R_Show
    \/ R_Disable
    \/ R_SetCallback
    \/ R_WheelApi
    \/ R_InterruptRate
    \/ R_MinRate
    \/ R_VideoMode
    \/ R_HostWheel
    \/ R_HostMoved
    \/ R_HostMovedQueued
    \/ R_HostButtons

SpecReset == Init /\ [][NextReset]_vars

\* ------------------------------------------------------------------------
\* Properties of the resets
\* ------------------------------------------------------------------------
\* C6: after function 0x00 or 0x21 the driver is enabled with both hide
\* counts at 1, no cursor background saved, no callback registered (driver
\* not active) and none in flight, the mickey, press and release counters
\* at 0, the pending input and the wheel counter cleared; the call returns
\* AX = 0xffff and BX = 3.
C6_ResetLandsEnabledHidden ==
    LastInt33({0, 33}) =>
        /\ state.enabled
        /\ state.hidden = 1
        /\ state.oldhidden = 1
        /\ ~state.background.enabled
        /\ state.user_callback_mask = 0
        /\ ~active_dos
        /\ ~dos_cb_running
        /\ state.mickey_counter_x = 0
        /\ state.mickey_counter_y = 0
        /\ state.times_pressed = Zero3
        /\ state.times_released = Zero3
        /\ pending.x_rel = 0
        /\ pending.y_rel = 0
        /\ pending.w_rel = 0
        /\ counter_w = 0
        /\ regs.ax = 65535
        /\ regs.bx = 3

\* A reset called by the guest's own handler, with the cursor shown and a
\* button press counted
C6_Witness ==
    /\ LastInt33({0, 33})
    /\ hist.pre.dos_cb_running
    /\ hist.pre.state.user_callback_mask # 0
    /\ hist.pre.state.hidden = 0
    /\ hist.pre.state.background.enabled
    /\ hist.pre.state.times_pressed[0] = 1
    /\ state.hidden = 1

\* What function 0x21 makes of the state the last operation started in
SoftResetOfPre == int33_handler([hist.pre EXCEPT !.regs.ax = 33])

\* C7: function 0x00 leaves the program in the state function 0x21 would
\* produce from the same state, except that wheel_api is cleared (the wheel
\* counter both resets clear) and the interrupt rate override is dropped,
\* the rate being notified anew (the configured minimum, else the default);
\* function 0x21 leaves wheel_api and the rate override as they are.
C7_HardResetIsSoftResetPlus ==
    /\ LastInt33({0}) =>
          M = [SoftResetOfPre EXCEPT
                 !.state.wheel_api = FALSE,
                 !.rate_is_set = FALSE,
                 !.interface_rate = IF min_rate_hz # 0 THEN min_rate_hz
                                    ELSE rate_default_hz]
    /\ LastInt33({33}) =>
          /\ state.wheel_api = hist.pre.state.wheel_api
          /\ rate_is_set = hist.pre.rate_is_set
          /\ rate_hz = hist.pre.rate_hz
          /\ interface_rate = hist.pre.interface_rate

\* A hard reset with the wheel extension on, a rate override and a
\* configured minimum rate
C7_Witness ==
    /\ LastInt33({0})
    /\ hist.pre.state.wheel_api
    /\ hist.pre.rate_is_set
    /\ hist.pre.min_rate_hz # 0
    /\ ~state.wheel_api
    /\ ~rate_is_set

\* ------------------------------------------------------------------------
\* Specification SpecCallback: a guest that registers a handler, host
\* events delivered to it, and the INT 33h calls the handler makes before
\* it returns
\* ------------------------------------------------------------------------
\* Function 0x0c: handler at 1000:0100 for movement and the left button
K_SetCallback ==
    /\ hist.ops < MaxCallbackOps
    /\ Int33(12, 0, 7, 256, 0, 0, 4096)

\* The left button goes down or up; the event is delivered if it may be
K_HostButtons ==
    /\ hist.ops < MaxCallbackOps
    /\ InFlight(M) < MaxInFlight
    /\ HostButtonsStep(1 - buttons)

\* A movement of 4 pixels to the right, consumed and delivered if it may be
K_HostMoved ==
    /\ hist.ops < MaxCallbackOps
    /\ InFlight(M) < MaxInFlight
    /\ HostMovedStep(4 * PosUnit, 0, 0, 0, AccUnit)

\* The guest (its handler, when one is running) polls with function 0x03
K_Poll ==
    /\ hist.ops < MaxCallbackOps
    /\ Int33(3, 0, 0, 0, 0, 0, 0)

\* The innermost running handler returns through the trampoline
K_CallbackReturn ==
    /\ hist.ops < MaxCallbackOps
    /\ CallbackReturnStep

NextCallback ==
    \/ K_SetCallback
    \/ K_HostButtons
    \/ K_HostMoved
    \/ K_Poll
    \/ K_CallbackReturn
    \/ HardReset
    \/ SoftReset

SpecCallback == Init /\ [][NextCallback]_vars

\* ------------------------------------------------------------------------
\* Properties of callback delivery
\* ------------------------------------------------------------------------
\* C1: at most one guest callback invocation is in flight at any time: no
\* second callback is started before the first has returned, whatever
\* INT 33h functions (resets included) the handler calls in between.
C1_SingleInFlight == InFlight(M) <= 1

\* ------------------------------------------------------------------------
\* Specification SpecMickey: relative movements of a captured mouse, the
\* mickeys-per-pixel ratio, reads of the motion counters, resets
\* ------------------------------------------------------------------------
\* Function 0x0f: 8 or 64 mickeys per 8 pixels on both axes
M_SetRate ==
    /\ hist.ops < MaxMickeyOps
    /\ \E ratio \in {8, 64} : Int33(15, 0, ratio, ratio, 0, 0, 0)

\* Half a pixel, one pixel back, or 1024 or 2048 pixels along x, and the
\* opposite along y; consumed at once
M_Move ==
    /\ hist.ops < MaxMickeyOps
    /\ \E x_rel \in {PosUnit \div 2, -PosUnit, 1024 * PosUnit,
                      MaxRelMovement * PosUnit} :
          HostMovedStep(x_rel, -x_rel, 0, 0, AccUnit)

\* Function 0x0b or 0x27: read and zero the motion counters
M_Read ==
    /\ hist.ops < MaxMickeyOps
    /\ \E ax \in {11, 39} : Int33(ax, 0, 0, 0, 0, 0, 0)

NextMickey ==
    \/ M_SetRate
    \/ M_Move
    \/ M_Read
    \/ HardReset
    \/ SoftReset

SpecMickey == Init /\ [][NextMickey]_vars

P_SetPosition ==
    /\ hist.ops < MaxRangeOps
    /\ \E xy \in {<<700, 300>>, <<50, 20>>} :
          Int33(4, 0, xy[1], xy[2], 0, 0, 0)

\* Function 0x07: in order, reversed, and with a negative bound (-100)
P_RangeX ==
    /\ hist.ops < MaxRangeOps
    /\ \E ab \in {<<0, 800>>, <<600, 100>>, <<100, 65436>>} :
          Int33(7, 0, ab[1], ab[2], 0, 0, 0)

\* Function 0x08
P_RangeY ==
    /\ hist.ops < MaxRangeOps
    /\ \E ab \in {<<0, 400>>, <<150, 50>>} :
          Int33(8, 0, ab[1], ab[2], 0, 0, 0)

\* A few pixels, or as far as one movement goes in either direction
P_Move ==
    /\ hist.ops < MaxRangeOps
    /\ \E xy \in {<<5 * PosUnit, -3 * PosUnit>>,
                   <<MaxRelMovement * PosUnit, MaxRelMovement * PosUnit>>,
                   <<-MaxRelMovement * PosUnit, -MaxRelMovement * PosUnit>>} :
          HostMovedStep(xy[1], xy[2], 0, 0, AccUnit)

NextRange ==
    \/ P_SetPosition
    \/ P_RangeX
    \/ P_RangeY
    \/ P_Move
    \/ HardReset
    \/ SoftReset

SpecRange == Init /\ [][NextRange]_vars

\* ------------------------------------------------------------------------
\* Specification SpecPosition: SpecRange with video mode changes and the
\* saving and loading of the driver state
\* ------------------------------------------------------------------------
\* Function 0x07 with a range in the right half of the screen
P_RangeNarrow ==
    /\ hist.ops < MaxRangeOps
    /\ Int33(7, 0, 500, 600, 0, 0, 0)

\* Text 80x25, 640x480, 320x200, and a mode the driver does not support
P_VideoMode ==
    /\ hist.ops < MaxRangeOps
    /\ \E mode \in {3, 18, 19, 106} : VideoModeStep(mode)

\* Function 0x16 to 2000:0000
P_Save ==
    /\ hist.ops < MaxRangeOps
    /\ Int33(22, 0, 0, 0, 0, 0, 8192)

\* Function 0x17 from 2000:0000, once a state was saved there
P_Load ==
    /\ hist.ops < MaxRangeOps
    /\ SegPhys(8192) \in DOMAIN guest_mem
    /\ Int33(23, 0, 0, 0, 0, 0, 8192)

NextPosition ==
    \/ P_SetPosition
    \/ P_RangeX
    \/ P_RangeY
    \/ P_RangeNarrow
    \/ P_Move
    \/ P_VideoMode
    \/ P_Save
    \/ P_Load
    \/ HardReset
    \/ SoftReset

SpecPosition == Init /\ [][NextPosition]_vars

\* ------------------------------------------------------------------------
\* Properties of the position and its range
\* ------------------------------------------------------------------------
PosInRange ==
    /\ state.minpos_x * PosUnit <= pos_x
    /\ pos_x <= state.maxpos_x * PosUnit
    /\ state.minpos_y * PosUnit <= pos_y
    /\ pos_y <= state.maxpos_y * PosUnit

\* C3: after set position (0x04), define range (0x07/0x08), reset
\* (0x00/0x21), load state (0x17), a video mode change and a consumed host
\* movement, minpos_x <= pos_x <= maxpos_x and minpos_y <= pos_y <= maxpos_y.
C3_PositionInRange ==
    \/ LastInt33({4, 7, 8, 0, 33, 23})
    \/ last.op \in {"SetVideoMode", "HostMoved"}
    => PosInRange

\* C10: function 0x07 with (CX, DX) = (a, b) read as signed 16-bit values
\* stores minpos_x = min(a, b), maxpos_x = max(a, b) and clamps pos_x into
\* the new range; function 0x08 does the same for y; neither touches the
\* other axis.
C10_RangeClamp ==
    LET a == Wrap16(last.a[3])
        b == Wrap16(last.a[4])
        lo == IF a < b THEN a ELSE b
        hi == IF a < b THEN b ELSE a
        was == hist.pre
    IN  /\ LastInt33({7}) =>
              /\ state.minpos_x = lo
              /\ state.maxpos_x = hi
              /\ pos_x = (IF was.pos_x < lo * PosUnit THEN lo * PosUnit
                          ELSE IF was.pos_x > hi * PosUnit THEN hi * PosUnit
                          ELSE was.pos_x)
              /\ state.minpos_y = was.state.minpos_y
              /\ state.maxpos_y = was.state.maxpos_y
              /\ pos_y = was.pos_y
        /\ LastInt33({8}) =>
              /\ state.minpos_y = lo
              /\ state.maxpos_y = hi
              /\ pos_y = (IF was.pos_y < lo * PosUnit THEN lo * PosUnit
                          ELSE IF was.pos_y > hi * PosUnit THEN hi * PosUnit
                          ELSE was.pos_y)
              /\ state.minpos_x = was.state.minpos_x
              /\ state.maxpos_x = was.state.maxpos_x
              /\ pos_x = was.pos_x

\* The example: function 0x07 with (600, 100) at position 700
C10_Witness ==
    /\ LastInt33({7})
    /\ last.a[3] = 600
    /\ last.a[4] = 100
    /\ hist.pre.pos_x = 700 * PosUnit
    /\ state.minpos_x = 100
    /\ state.maxpos_x = 600
    /\ pos_x = 600 * PosUnit

\* ------------------------------------------------------------------------
\* Specification SpecSaveLoad: the guest saves the driver state, changes
\* it, and loads it back
\* ------------------------------------------------------------------------
\* Function 0x16 to 2000:0010 or 3000:0010
S_Save ==
    /\ hist.ops < MaxSaveOps
    /\ \E es \in {8192, 12288} : Int33(22, 0, 0, 16, 0, 0, es)

\* Function 0x17 from an address a state was saved to
S_Load ==
    /\ hist.ops < MaxSaveOps
    /\ \E es \in {8192, 12288} :
          /\ SegPhys(es) + 16 \in DOMAIN guest_mem
          /\ Int33(23, 0, 0, 16, 0, 0, es)

\* Calls that change what the queries answer: sensitivity (0x1a), display
\* page (0x1d), language (0x22), horizontal range (0x07), hot spot (0x09),
\* hide count (0x02), disable (0x1f)
S_Change ==
    /\ hist.ops < MaxSaveOps
    /\ \E r \in {<<26, 80, 30, 10>>, <<29, 1, 0, 0>>, <<34, 2, 0, 0>>,
                  <<7, 0, 100, 600>>, <<9, 3, 5, 0>>, <<2, 0, 0, 0>>,
                  <<31, 0, 0, 0>>} :
          Int33(r[1], r[2], r[3], r[4], 0, 0, 0)

\* Function 0x0c: a handler for movement
S_SetCallback ==
    /\ hist.ops < MaxSaveOps
    /\ Int33(12, 0, 1, 256, 0, 0, 4096)

\* A movement reported by the host and not yet consumed
S_MoveQueued ==
    /\ hist.ops < MaxSaveOps
    /\ Step("NotifyMoved", <<3 * PosUnit>>, M,
            MOUSEDOS_NotifyMoved(M, 3 * PosUnit, 0, 0, 0, AccUnit).m, 0)

NextSaveLoad ==
    \/ S_Save
    \/ S_Load
    \/ S_Change
    \/ S_SetCallback
    \/ S_MoveQueued
    \/ HardReset
    \/ SoftReset

SpecSaveLoad == Init /\ [][NextSaveLoad]_vars

\* ------------------------------------------------------------------------
\* Properties of saving and loading the driver state
\* ------------------------------------------------------------------------
\* The registers function ax returns when struct state is st
Query(st, ax) ==
    int33_handler(WithRegs([M EXCEPT !.state = st], ax, 0, 0, 0, 0, 0, 0)).regs

QueryAnswers(st) == [ax \in {27, 30, 35, 38, 42, 49} |-> Query(st, ax)]

\* C4: function 0x17 from an address function 0x16 saved to restores every
\* field of struct state to its value at save time, so the queries 0x1b,
\* 0x1e, 0x23, 0x26, 0x2a, 0x31 answer as they did then; after the load the
\* sensitivity coefficients are sensitivity_x/50 and sensitivity_y/50, the
\* pending input is reset and the active flag is recomputed.
C4_SaveLoadRoundTrip ==
    LET addr == SegPhys(last.a[7]) + last.a[4]
    IN  LastInt33({23}) /\ addr \in DOMAIN hist.saved =>
            /\ state = hist.saved[addr]
            /\ QueryAnswers(state) = QueryAnswers(hist.saved[addr])
            /\ state.sensitivity_coeff_x * 50 = state.sensitivity_x * SensUnit
            /\ state.sensitivity_coeff_y * 50 = state.sensitivity_y * SensUnit
            /\ pending.x_rel = 0
            /\ pending.y_rel = 0
            /\ pending.w_rel = 0
            /\ active_dos = (state.user_callback_mask # 0)

\* A load that undoes a change made since the save, discards a pending
\* movement and turns the active flag off
C4_Witness ==
    /\ LastInt33({23})
    /\ SegPhys(last.a[7]) + last.a[4] \in DOMAIN hist.saved
    /\ hist.pre.state # state
    /\ hist.pre.pending.x_rel # 0
    /\ hist.pre.active_dos
    /\ ~active_dos

\* ------------------------------------------------------------------------
\* Specification SpecWheel: the wheel extension, wheel ticks from the host,
\* the reads of the wheel counter, and the saving and loading of the state
\* ------------------------------------------------------------------------
\* Function 0x11
W_WheelApi ==
    /\ hist.ops < MaxWheelOps
    /\ Int33(17, 0, 0, 0, 0, 0, 0)

\* Wheel ticks, consumed at once and delivered if a handler may be called
W_Tick ==
    /\ hist.ops < MaxWheelOps
    /\ InFlight(M) < MaxInFlight
    /\ \E w_rel \in {100, -100, 300} : HostWheelStep(w_rel)

\* A tick reported by the host and not yet consumed
W_TickQueued ==
    /\ hist.ops < MaxWheelOps
    /\ StepRet("NotifyWheel", <<1>>, M, MOUSEDOS_NotifyWheel(M, 1))

\* Function 0x03, and functions 0x05/0x06 with BX = 0xffff
W_Read ==
    /\ hist.ops < MaxWheelOps
    /\ \E r \in {<<3, 0>>, <<5, 65535>>, <<6, 65535>>} :
          Int33(r[1], r[2], 0, 0, 0, 0, 0)

\* Function 0x0c: a handler for movement and the wheel
W_SetCallback ==
    /\ hist.ops < MaxWheelOps
    /\ Int33(12, 0, 1, 256, 0, 0, 4096)

\* Function 0x16 to 2000:0000
W_Save ==
    /\ hist.ops < MaxWheelOps
    /\ Int33(22, 0, 0, 0, 0, 0, 8192)

\* Function 0x17 from 2000:0000, once a state was saved there
W_Load ==
    /\ hist.ops < MaxWheelOps
    /\ SegPhys(8192) \in DOMAIN guest_mem
    /\ Int33(23, 0, 0, 0, 0, 0, 8192)

NextWheel ==
    \/ W_WheelApi
    \/ W_Tick
    \/ W_TickQueued
    \/ W_Read
    \/ W_SetCallback
    \/ W_Save
    \/ W_Load
    \/ HardReset
    \/ SoftReset

SpecWheel == Init /\ [][NextWheel]_vars

\* ------------------------------------------------------------------------
\* Properties of the wheel
\* ------------------------------------------------------------------------
\* The 8-bit signed range
Sat8(v) == IF v > 127 THEN 127 ELSE IF v < -128 THEN -128 ELSE v

\* C8: with the wheel extension on, wheel ticks are added to the wheel
\* counter, which stops at the limits of the 8-bit signed range and does
\* not wrap (a handler called for the ticks reads and zeroes it); function
\* 0x03 returns the counter in BH, functions 0x05/0x06 with BX = 0xffff
\* return it in BX, and each read sets the counter to 0, so that a second
\* read without a tick in between returns 0.
C8_WheelClampReset ==
    LET was == hist.pre
    IN  /\ counter_w \in -128..127
        /\ last.op = "HostWheel" /\ was.state.wheel_api =>
              counter_w =
                  (IF InFlight(M) > InFlight(was) THEN 0
                   ELSE Sat8(was.counter_w
                             + Sat8(was.pending.w_rel + last.a[1])))
        /\ LastInt33({3}) /\ was.state.wheel_api =>
              /\ regs.bx \div 256 = (was.counter_w + 256) % 256
              /\ counter_w = 0
        /\ LastInt33({5, 6}) /\ last.a[2] = 65535 /\ was.state.wheel_api =>
              /\ regs.bx = (was.counter_w + 65536) % 65536
              /\ counter_w = 0

\* Function 0x03 reading a counter that two ticks of 100 have saturated
C8_Witness ==
    /\ LastInt33({3})
    /\ hist.pre.state.wheel_api
    /\ hist.pre.counter_w = 127
    /\ regs.bx \div 256 = 127
    /\ counter_w = 0

\* C9 as stated: wheel_api is true only if function 0x11 was called since
\* the last function 0x00.
C9_WheelApiOnlyBy11 == state.wheel_api => hist.w11

\* C9 (amended): wheel_api is true only if, since the last function 0x00,
\* function 0x11 was called or function 0x17 loaded a state with wheel_api
\* set, and no other operation turns it on; while wheel_api is false
\* MOUSEDOS_NotifyWheel returns false and changes nothing, function 0x03
\* returns BH = 0, and functions 0x05/0x06 with BX = 0xffff return
\* BX = CX = DX = 0 and change nothing but the registers.
C9_WheelApiGate ==
    LET was == hist.pre
    IN  /\ state.wheel_api => hist.wsrc
        /\ state.wheel_api /\ ~was.state.wheel_api => LastInt33({17, 23})
        /\ last.op \in {"HostWheel", "NotifyWheel"} /\ ~was.state.wheel_api =>
              /\ M = was
              /\ last.op = "NotifyWheel" => last.ret = FALSE
        /\ LastInt33({3}) /\ ~was.state.wheel_api =>
              regs.bx \div 256 = 0
        /\ LastInt33({5, 6}) /\ last.a[2] = 65535 /\ ~was.state.wheel_api =>
              /\ regs.bx = 0
              /\ regs.cx = 0
              /\ regs.dx = 0
              /\ [M EXCEPT !.regs = was.regs] = was

\* Function 0x17 turning the extension on after a hard reset, with no call
\* of function 0x11 since
C9_Witness ==
    /\ LastInt33({23})
    /\ ~hist.pre.state.wheel_api
    /\ state.wheel_api
    /\ ~hist.w11

\* ------------------------------------------------------------------------
\* Specification SpecGetPos: SpecRange with reads of the position
\* (function 0x03) and requests of a negative position
\* ------------------------------------------------------------------------
\* Function 0x03
G_GetPosition ==
    /\ hist.ops < MaxRangeOps
    /\ Int33(3, 0, 0, 0, 0, 0, 0)

\* Function 0x04 asking for (-50, 10), and for the position (320, 96) the
\* reset leaves in text mode
G_SetPosition ==
    /\ hist.ops < MaxRangeOps
    /\ \E xy \in {<<65486, 10>>, <<320, 96>>} :
          Int33(4, 0, xy[1], xy[2], 0, 0, 0)

NextGetPos ==
    \/ P_SetPosition
    \/ P_RangeX
    \/ P_RangeY
    \/ P_Move
    \/ G_GetPosition
    \/ G_SetPosition
    \/ HardReset
    \/ SoftReset

SpecGetPos == Init /\ [][NextGetPos]_vars

\* ------------------------------------------------------------------------
\* Properties of the position the guest reads and sets
\* ------------------------------------------------------------------------
\* C11: the CX, DX function 0x03 returns, read as signed 16-bit values, lie
\* within [minpos_x, maxpos_x] and [minpos_y, maxpos_y], for every range
\* defined with functions 0x07/0x08.
C11_ReportedPositionInRange ==
    LastInt33({3}) =>
        /\ state.minpos_x <= Wrap16(regs.cx)
        /\ Wrap16(regs.cx) <= state.maxpos_x
        /\ state.minpos_y <= Wrap16(regs.dx)
        /\ Wrap16(regs.dx) <= state.maxpos_y

\* C12: after function 0x04 each axis holds the requested signed 16-bit
\* coordinate clamped into [minpos, maxpos], except that an axis whose
\* request equals the position the guest currently reads keeps its
\* internal position.
C12_SetPosition ==
    LET was == hist.pre
        req_x == Wrap16(last.a[3])
        req_y == Wrap16(last.a[4])
    IN  LastInt33({4}) =>
            /\ pos_x = (IF req_x = Wrap16(get_pos_x(was)) THEN was.pos_x
                        ELSE StdClamp(req_x * PosUnit,
                                      state.minpos_x * PosUnit,
                                      state.maxpos_x * PosUnit))
            /\ pos_y = (IF req_y = Wrap16(get_pos_y(was)) THEN was.pos_y
                        ELSE StdClamp(req_y * PosUnit,
                                      state.minpos_y * PosUnit,
                                      state.maxpos_y * PosUnit))

\* ------------------------------------------------------------------------
\* Specification SpecButtons: button presses and releases from the host,
\* movements, and the guest's reads of the press and release data
\* ------------------------------------------------------------------------
\* The buttons held down become: none, left, left and right, middle
B_Buttons ==
    /\ hist.ops < MaxButtonOps
    /\ \E new_buttons \in {0, 1, 3, 4} : HostButtonsStep(new_buttons)

\* A movement of 16 pixels right and 8 down
B_Move ==
    /\ hist.ops < MaxButtonOps
    /\ HostMovedStep(16 * PosUnit, 8 * PosUnit, 0, 0, AccUnit)

\* Function 0x05 for each button, for index 3 and for the wheel index
B_Press ==
    /\ hist.ops < MaxButtonOps
    /\ \E idx \in {0, 1, 2, 3, 65535} : Int33(5, idx, 0, 0, 0, 0, 0)

\* Function 0x06 likewise
B_Release ==
    /\ hist.ops < MaxButtonOps
    /\ \E idx \in {0, 1, 2, 3, 65535} : Int33(6, idx, 0, 0, 0, 0, 0)

NextButtons ==
    \/ B_Buttons
    \/ B_Move
    \/ B_Press
    \/ B_Release
    \/ HardReset
    \/ SoftReset

SpecButtons == Init /\ [][NextButtons]_vars

\* ------------------------------------------------------------------------
\* Properties of the button data
\* ------------------------------------------------------------------------
\* C13: function 0x05 with index idx < 3 returns AX = the buttons held,
\* BX = times_pressed[idx], CX/DX = the last press position of that button
\* and clears times_pressed[idx] and nothing else; function 0x06 does the
\* same with the release data; an index >= 3 (but for the wheel index with
\* the wheel extension on) returns BX = CX = DX = 0 and changes nothing.
C13_ButtonData ==
    LET was == hist.pre
        idx == last.a[2]
        now == [M EXCEPT !.regs = was.regs]
    IN  /\ LastInt33({5}) /\ idx < 3 =>
              /\ regs.ax = was.buttons
              /\ regs.bx = was.state.times_pressed[idx]
              /\ regs.cx = was.state.last_pressed_x[idx]
              /\ regs.dx = was.state.last_pressed_y[idx]
              /\ now = [was EXCEPT !.state.times_pressed[idx] = 0]
        /\ LastInt33({6}) /\ idx < 3 =>
              /\ regs.ax = was.buttons
              /\ regs.bx = was.state.times_released[idx]
              /\ regs.cx = was.state.last_released_x[idx]
              /\ regs.dx = was.state.last_released_y[idx]
              /\ now = [was EXCEPT !.state.times_released[idx] = 0]
        /\ /\ LastInt33({5, 6})
           /\ idx >= 3
           /\ ~(idx = 65535 /\ was.state.wheel_api)
           => /\ regs.bx = 0
              /\ regs.cx = 0
              /\ regs.dx = 0
              /\ now = was

\* Function 0x05 for the right button after left and right were pressed
\* and released: the left press and both releases stay counted
C13_Witness ==
    /\ LastInt33({5})
    /\ last.a[2] = 1
    /\ regs.bx = 1
    /\ regs.cx # 0
    /\ state.times_pressed = [i \in 0..2 |-> IF i = 0 THEN 1 ELSE 0]
    /\ state.times_released = [i \in 0..2 |-> IF i < 2 THEN 1 ELSE 0]

\* ------------------------------------------------------------------------
\* Properties of the reads of the mickey counters
\* ------------------------------------------------------------------------
\* C14: functions 0x0b and 0x27 return the two mickey counters in CX/DX in
\* two's complement and zero both (a read that follows a read returns
\* 0, 0); function 0x27 also returns the text AND/XOR masks in AX/BX,
\* function 0x0b leaves AX/BX alone; nothing else changes, neither the
\* position nor the sub-mickey remainders.
C14_ReadMotion ==
    LET was == hist.pre
    IN  LastInt33({11, 39}) =>
            /\ regs.cx = (was.state.mickey_counter_x + 65536) % 65536
            /\ regs.dx = (was.state.mickey_counter_y + 65536) % 65536
            /\ state.mickey_counter_x = 0
            /\ state.mickey_counter_y = 0
            /\ regs.ax = (IF last.a[1] = 39 THEN was.state.text_and_mask
                          ELSE was.regs.ax)
            /\ regs.bx = (IF last.a[1] = 39 THEN was.state.text_xor_mask
                          ELSE was.regs.bx)
            /\ [M EXCEPT !.regs = was.regs,
                         !.state.mickey_counter_x = was.state.mickey_counter_x,
                         !.state.mickey_counter_y = was.state.mickey_counter_y]
               = was

\* Function 0x27 reading a negative counter with half a mickey remaining
C14_Witness ==
    /\ LastInt33({39})
    /\ hist.pre.state.mickey_counter_y = -1
    /\ regs.dx = 65535
    /\ regs.ax = default_text_and_mask
    /\ state.mickey_delta_x # 0
    /\ state.mickey_counter_y = 0

\* ------------------------------------------------------------------------
\* Specification SpecHandler: the guest registers and exchanges event
\* handlers, saves and loads the state, and makes other calls
\* ------------------------------------------------------------------------
\* Function 0x0c: handler A at 1000:0100 with mask 3, or no events (mask 0)
H_SetCallback ==
    /\ hist.ops < MaxHandlerOps
    /\ \E mask \in {0, 3} : Int33(12, 0, mask, 256, 0, 0, 4096)

\* Function 0x14: handler B at 2000:0200 with mask 5, handler A again, or
\* no events at 0000:0000
H_Exchange ==
    /\ hist.ops < MaxHandlerOps
    /\ \E r \in {<<5, 512, 8192>>, <<3, 256, 4096>>, <<0, 0, 0>>} :
          Int33(20, 0, r[1], r[2], 0, 0, r[3])

\* Function 0x16 to 3000:0000
H_Save ==
    /\ hist.ops < MaxHandlerOps
    /\ Int33(22, 0, 0, 0, 0, 0, 12288)

\* Function 0x17 from 3000:0000, once a state was saved there
H_Load ==
    /\ hist.ops < MaxHandlerOps
    /\ SegPhys(12288) \in DOMAIN guest_mem
    /\ Int33(23, 0, 0, 0, 0, 0, 12288)

\* Other calls: show, read position, disable, enable, version
H_Other ==
    /\ hist.ops < MaxHandlerOps
    /\ \E ax \in {1, 3, 31, 32, 36} : Int33(ax, 0, 0, 0, 0, 0, 0)

NextHandler ==
    \/ H_SetCallback
    \/ H_Exchange
    \/ H_Save
    \/ H_Load
    \/ H_Other
    \/ HardReset
    \/ SoftReset

SpecHandler == Init /\ [][NextHandler]_vars

\* ------------------------------------------------------------------------
\* Properties of the handler registration
\* ------------------------------------------------------------------------
\* C15: the driver is active exactly when an event mask is registered:
\* after MOUSEDOS_Init and after every call, active_dos = (mask # 0).
C15_ActiveIffMask == active_dos = (state.user_callback_mask # 0)

\* Function 0x14 with mask 0 deactivating a driver that function 0x0c had
\* activated
C15_Witness ==
    /\ LastInt33({20})
    /\ last.a[3] = 0
    /\ hist.pre.active_dos
    /\ ~active_dos

\* C16 as stated: function 0x14 stores the new registration and returns in
\* CX, DX, ES the mask, offset and segment stored by the most recent
\* function 0x0c or 0x14 before it (the mask 0 after a reset).
C16_Exchange_AsStated ==
    LastInt33({20}) =>
        /\ Registration(M) =
               [mask |-> last.a[3], offset |-> last.a[4], segment |-> last.a[7]]
        /\ regs.cx = hist.reg0was.mask
        /\ regs.dx = hist.reg0was.offset
        /\ regs.es = hist.reg0was.segment

\* C16 (amended): the same, where after a function 0x17 the registration
\* returned is the one that call loaded.
C16_Exchange ==
    LastInt33({20}) =>
        /\ Registration(M) =
               [mask |-> last.a[3], offset |-> last.a[4], segment |-> last.a[7]]
        /\ regs.cx = hist.regwas.mask
        /\ regs.dx = hist.regwas.offset
        /\ regs.es = hist.regwas.segment

\* Handler A registered, exchanged for B, exchanged back: the second
\* exchange returns B
C16_Witness ==
    /\ LastInt33({20})
    /\ last.a[3] = 3
    /\ regs.cx = 5
    /\ regs.dx = 512
    /\ regs.es = 8192
    /\ state.user_callback_mask = 3
    /\ state.user_callback_segment = 4096

\* ------------------------------------------------------------------------
\* Specification SpecBackdoor: the guest calls the driver through the
\* backdoor entry, and through INT 33h
\* ------------------------------------------------------------------------
\* The caller's data segment, and the offsets of its four shadow words
BackdoorPt == [ds |-> 20480, ax |-> 0, bx |-> 2, cx |-> 4, dx |-> 6]

\* The guest stores four words in its shadow variables
WithShadow(m, ax, bx, cx, dx) ==
    real_writew(
        real_writew(
            real_writew(
                real_writew(m, BackdoorPt.ds, BackdoorPt.ax, ax),
                BackdoorPt.ds, BackdoorPt.bx, bx),
            BackdoorPt.ds, BackdoorPt.cx, cx),
        BackdoorPt.ds, BackdoorPt.dx, dx)

\* The shadow words as the guest reads them
Shadow(m) ==
    [ax |-> real_readw(m, BackdoorPt.ds, BackdoorPt.ax),
     bx |-> real_readw(m, BackdoorPt.ds, BackdoorPt.bx),
     cx |-> real_readw(m, BackdoorPt.ds, BackdoorPt.cx),
     dx |-> real_readw(m, BackdoorPt.ds, BackdoorPt.dx)]

\* The calls made through either entry: (AX, BX, CX, DX)
BackdoorCalls ==
    { <<1, 0, 0, 0>>, <<3, 0, 0, 0>>, <<4, 0, 200, 50>>,
      <<7, 0, 100, 300>>, <<12, 4096, 3, 256>>, <<12, 0, 5, 512>>,
      <<20, 8192, 5, 512>>, <<20, 0, 0, 0>>, <<26, 40, 60, 200>>,
      <<27, 0, 0, 0>>, <<31, 0, 0, 0>>, <<32, 0, 0, 0>>, <<36, 0, 0, 0>> }

\* The guest stores the words and calls the backdoor entry
D_Backdoor ==
    /\ hist.ops < MaxBackdoorOps
    /\ \E c \in BackdoorCalls :
          Step("backdoor", c, WithShadow(M, c[1], c[2], c[3], c[4]),
               mouse_bd_handler(WithShadow(M, c[1], c[2], c[3], c[4]),
                                BackdoorPt.ds, BackdoorPt), 0)

\* The same calls through INT 33h, ES as the backdoor entry sets it
D_Direct ==
    /\ hist.ops < MaxBackdoorOps
    /\ \E c \in BackdoorCalls :
          Int33(c[1], c[2], c[3], c[4], 0, 0,
                IF c[1] \in {12, 20} /\ c[2] # 0 THEN c[2] ELSE BackdoorPt.ds)

NextBackdoor ==
    \/ D_Backdoor
    \/ D_Direct
    \/ HardReset
    \/ SoftReset

SpecBackdoor == Init /\ [][NextBackdoor]_vars

\* The INT 33h call with the registers of the last backdoor call: AX, BX,
\* CX, DX from the shadow words, and ES the segment the call refers to
DirectOfBackdoor ==
    int33_handler(
        WithRegs(hist.pre, last.a[1], last.a[2], last.a[3], last.a[4],
                 hist.pre.regs.si, hist.pre.regs.di,
                 IF last.a[1] \in {12, 20}
                 THEN IF last.a[2] # 0 THEN last.a[2] ELSE BackdoorPt.ds
                 ELSE IF last.a[1] \in {9, 22, 23} THEN BackdoorPt.ds
                 ELSE hist.pre.regs.es))

\* C17: a call through the backdoor entry changes the driver state as the
\* INT 33h call with the same registers does, and leaves in the four shadow
\* words the AX, BX, CX, DX that call returns (for function 0x14 the
\* previous event mask in the CX word).
C17_BackdoorAsDirect ==
    last.op = "backdoor" =>
        /\ [M EXCEPT !.guest_mem = NoGuestMem, !.regs = RegsDefault] =
               [DirectOfBackdoor EXCEPT !.guest_mem = NoGuestMem,
                                        !.regs = RegsDefault]
        /\ Shadow(M) = [ax |-> DirectOfBackdoor.regs.ax,
                        bx |-> DirectOfBackdoor.regs.bx,
                        cx |-> DirectOfBackdoor.regs.cx,
                        dx |-> DirectOfBackdoor.regs.dx]

\* ------------------------------------------------------------------------
\* Specification SpecDisable: the guest shows and hides the cursor, disables
\* and enables the driver, and resets it
\* ------------------------------------------------------------------------
NextDisable ==
    \/ Show
    \/ Hide
    \/ Disable
    \/ Enable
    \/ HardReset
    \/ SoftReset

SpecDisable == Init /\ [][NextDisable]_vars

\* C18: function 0x1f sets hidden = 1 and enabled = false and returns
\* BX = 0, ES = 0; function 0x20 of a disabled driver brings state.hidden
\* back to the value it had before the first function 0x1f since the driver
\* was last enabled, also after several calls of function 0x1f.
C18_EnableRestoresHidden ==
    /\ LastInt33({31}) =>
           /\ state.hidden = 1
           /\ ~state.enabled
           /\ regs.bx = 0
           /\ regs.es = 0
    /\ LastInt33({32}) /\ ~hist.pre.state.enabled =>
           /\ state.enabled
           /\ state.hidden = hist.hid

\* ------------------------------------------------------------------------
\* Specification SpecSensitivity: the guest sets and reads the sensitivity,
\* saves the state, writes state blocks of its own and loads them
\* ------------------------------------------------------------------------
\* Function 0x1a with values inside and beyond the range, and beyond a byte
T_SetSensitivity ==
    /\ hist.ops < MaxSensOps
    /\ \E v \in {<<0, 100, 101>>, <<255, 300, 50>>, <<65535, 30, 256>>} :
          Int33(26, v[1], v[2], v[3], 0, 0, 0)

\* Function 0x1b
T_GetSensitivity ==
    /\ hist.ops < MaxSensOps
    /\ Int33(27, 0, 0, 0, 0, 0, 0)

\* Function 0x16 to 3000:0000
T_Save ==
    /\ hist.ops < MaxSensOps
    /\ Int33(22, 0, 0, 0, 0, 0, 12288)

\* State blocks the guest makes up: sensitivities beyond 100 and
\* coefficients that do not belong to them
GuestBlocks ==
    { [DriverStateDefault EXCEPT !.sensitivity_x = 255,
                                 !.sensitivity_y = 101,
                                 !.unknown_01 = 200,
                                 !.sensitivity_coeff_x = 7,
                                 !.sensitivity_coeff_y = 0],
      [state EXCEPT !.sensitivity_x = 20,
                    !.sensitivity_coeff_x = 75,
                    !.sensitivity_coeff_y = 150] }

\* The guest writes such a block to 3000:0000
T_GuestWrite ==
    /\ hist.ops < MaxSensOps
    /\ \E blk \in GuestBlocks :
          Step("GuestWrite", <<12288, 0>>, M,
               MEM_BlockWrite(M, SegPhys(12288),
                              [kind |-> "state", data |-> blk]), 0)

\* Function 0x17 from 3000:0000, once a block is there
T_Load ==
    /\ hist.ops < MaxSensOps
    /\ SegPhys(12288) \in DOMAIN guest_mem
    /\ Int33(23, 0, 0, 0, 0, 0, 12288)

NextSensitivity ==
    \/ T_SetSensitivity
    \/ T_GetSensitivity
    \/ T_Save
    \/ T_GuestWrite
    \/ T_Load
    \/ HardReset
    \/ SoftReset

SpecSensitivity == Init /\ [][NextSensitivity]_vars

\* C19: the two sensitivities and the third value are within 0..100 and
\* the coefficients are the sensitivities divided by 50, in every state;
\* function 0x1a stores min(100, requested), which function 0x1b returns.
C19_SensitivityClamped ==
    /\ state.sensitivity_x \in 0..100
    /\ state.sensitivity_y \in 0..100
    /\ state.unknown_01 \in 0..100
    /\ state.sensitivity_coeff_x * 50 = state.sensitivity_x * SensUnit
    /\ state.sensitivity_coeff_y * 50 = state.sensitivity_y * SensUnit
    /\ LastInt33({26}) =>
           /\ state.sensitivity_x = Min(100, last.a[2])
           /\ state.sensitivity_y = Min(100, last.a[3])
           /\ state.unknown_01 = Min(100, last.a[4])
    /\ LastInt33({27}) =>
           /\ regs.bx = state.sensitivity_x
           /\ regs.cx = state.sensitivity_y
           /\ regs.dx = state.unknown_01

\* A block with sensitivities 255 and 101, third value 200 and foreign
\* coefficients was loaded
C19_Witness ==
    /\ LastInt33({23})
    /\ ReadStateBlock(hist.pre, SegPhys(12288)).sensitivity_x = 255
    /\ ReadStateBlock(hist.pre, SegPhys(12288)).sensitivity_coeff_x = 7
    /\ state.sensitivity_x = 100
    /\ state.sensitivity_y = 100
    /\ state.unknown_01 = 100

\* ------------------------------------------------------------------------
\* Specification SpecRate: the guest sets the interrupt rate, the user
\* configures a minimum rate, the guest resets the driver
\* ------------------------------------------------------------------------
\* Function 0x1c with every rate code of the table, and codes beyond it
Q_InterruptRate ==
    /\ hist.ops < MaxRateOps
    /\ \E bx \in {0, 1, 2, 3, 4, 65535} : Int33(28, bx, 0, 0, 0, 0, 0)

\* MOUSEDOS_NotifyMinRate: a minimum rate, or none
Q_MinRate ==
    /\ hist.ops < MaxRateOps
    /\ \E hz \in {0, 40, 100} :
          Step("NotifyMinRate", <<hz>>, M, MOUSEDOS_NotifyMinRate(M, hz), 0)

NextRate ==
    \/ Q_InterruptRate
    \/ Q_MinRate
    \/ HardReset
    \/ SoftReset

SpecRate == Init /\ [][NextRate]_vars

\* The rate table of function 0x1c
RateOfCode(bx) ==
    IF bx = 0 THEN 0
    ELSE IF bx = 1 THEN 30
    ELSE IF bx = 2 THEN 50
    ELSE IF bx = 3 THEN 100
    ELSE 200

\* C20: function 0x1c with BX # 0 makes the rate of the table the guest's
\* override and notifies it at once; the override stays the notified rate
\* across MOUSEDOS_NotifyMinRate and function 0x21; function 0x00 clears it
\* and notifies min_rate_hz if nonzero, else 200 Hz; function 0x1c with
\* BX = 0 changes neither the override nor the notified rate.
C20_InterruptRate ==
    /\ rate_is_set => interface_rate = rate_hz
    /\ LastInt33({28}) /\ last.a[2] # 0 =>
           /\ rate_is_set
           /\ rate_hz = RateOfCode(last.a[2])
           /\ interface_rate = RateOfCode(last.a[2])
    /\ LastInt33({28}) /\ last.a[2] = 0 =>
           /\ rate_is_set = hist.pre.rate_is_set
           /\ rate_hz = hist.pre.rate_hz
           /\ interface_rate = hist.pre.interface_rate
    /\ (last.op = "NotifyMinRate" \/ LastInt33({33})) /\ hist.pre.rate_is_set =>
           /\ rate_is_set
           /\ rate_hz = hist.pre.rate_hz
           /\ interface_rate = hist.pre.interface_rate
    /\ LastInt33({0}) =>
           /\ ~rate_is_set
           /\ interface_rate = IF min_rate_hz # 0 THEN min_rate_hz ELSE 200

\* The user raises the minimum rate to 100 Hz after the guest chose 30 Hz
C20_Witness ==
    /\ last.op = "NotifyMinRate"
    /\ hist.pre.rate_is_set
    /\ min_rate_hz = 100
    /\ interface_rate = 30

\* ------------------------------------------------------------------------
\* Specification SpecUnimplemented: calls of functions the driver does not
\* implement, among calls that change the driver state
\* ------------------------------------------------------------------------
\* Function codes the dispatcher only logs (0x0d, 0x0e, 0x12, 0x18, 0x19,
\* 0x25, 0x28..0x30, 0x32..0x35, 0x4d, 0x6d, 0x70, 0x72, 0x73, 0x53c1) and
\* codes it does not know (0x2f0, 0x1234, 0xffff)
UnimplementedCodes ==
    {13, 14, 18, 24, 25, 37} \cup (40..41) \cup (43..48) \cup (50..53)
    \cup {77, 109, 112, 114, 115, 21441, 752, 4660, 65535}

U_Unimplemented ==
    /\ hist.ops < MaxUnimplOps
    /\ \E ax \in UnimplementedCodes : Int33(ax, 1, 2, 3, 4, 5, 6)

\* Show, set position, register a handler, wheel extension, disable
U_Change ==
    /\ hist.ops < MaxUnimplOps
    /\ \E c \in {<<1, 0, 0, 0>>, <<4, 0, 16, 8>>, <<12, 0, 7, 256>>,
                  <<17, 0, 0, 0>>, <<31, 0, 0, 0>>} :
          Int33(c[1], c[2], c[3], c[4], 0, 0, 4096)

NextUnimplemented ==
    \/ U_Unimplemented
    \/ U_Change
    \/ HardReset
    \/ SoftReset

SpecUnimplemented == Init /\ [][NextUnimplemented]_vars

A_Show ==
    /\ hist.ops < MaxDrawOps
    /\ Int33(1, 0, 0, 0, 0, 0, 0)

A_Hide ==
    /\ hist.ops < MaxDrawOps
    /\ Int33(2, 0, 0, 0, 0, 0, 0)

\* Function 0x04
A_SetPosition ==
    /\ hist.ops < MaxDrawOps
    /\ \E xy \in {<<16, 8>>, <<320, 100>>} :
          Int33(4, 0, xy[1], xy[2], 0, 0, 0)

\* Function 0x09 (masks at 4000:0000, never written: all zero) and
\* function 0x0a with a software and with a hardware cursor
A_Cursor ==
    /\ hist.ops < MaxDrawOps
    /\ \E c \in {<<9, 1, 2, 0>>, <<10, 0, 65535, 30464>>, <<10, 1, 6, 7>>} :
          Int33(c[1], c[2], c[3], c[4], 0, 0, 16384)

\* Function 0x10: a region covering the whole screen, or its corner
A_Region ==
    /\ hist.ops < MaxDrawOps
    /\ \E r \in {<<0, 0, 639, 479>>, <<0, 0, 7, 7>>} :
          Int33(16, 0, r[1], r[2], r[3], r[4], 0)

\* Text mode 3, graphics mode 0x13, and a mode the driver cannot draw in
A_VideoMode ==
    /\ hist.ops < MaxDrawOps
    /\ \E mode \in {3, 19, 106} : VideoModeStep(mode)

NextDraw ==
    \/ A_Show
    \/ A_Hide
    \/ A_SetPosition
    \/ A_Cursor
    \/ A_Region
    \/ A_VideoMode
    \/ HardReset
    \/ SoftReset

SpecDraw == Init /\ [][NextDraw]_vars

\* The update region holds the position the guest reads
InUpdateRegion(m) ==
    /\ get_pos_x(m) >= m.state.update_region_x[0]
    /\ get_pos_x(m) <= m.state.update_region_x[1]
    /\ get_pos_y(m) >= m.state.update_region_y[0]
    /\ get_pos_y(m) <= m.state.update_region_y[1]

\* C22: with the update region covering the whole screen and the cursor
\* shown, the functions that redraw the cursor (0x04, 0x09, 0x0a, 0x10)
\* leave no saved background: state.background.enabled is false after
\* them while the position is inside the region, in text and in graphics
\* modes.
C22_UpdateExclusion ==
    /\ LastInt33({4, 9, 10, 16})
    /\ state.update_region_x = (0 :> 0 @@ 1 :> 639)
    /\ state.update_region_y = (0 :> 0 @@ 1 :> 479)
    /\ InUpdateRegion(M)
    /\ state.hidden = 0
    /\ ~state.inhibit_draw
    => ~state.background.enabled

\* C24: while state.hidden is not 0 or drawing is inhibited,
\* MOUSEDOS_DrawCursor and the two background-restore routines change
\* nothing, and the functions that redraw (0x01, 0x04, 0x09, 0x0a, 0x10)
\* leave the screen and the saved background as they were.
C24_HiddenDrawsNothing ==
    (state.hidden # 0 \/ state.inhibit_draw) =>
        /\ MOUSEDOS_DrawCursor(M) = M
        /\ restore_cursor_background(M) = M
        /\ restore_cursor_background_text(M) = M
        /\ LastInt33({1, 4, 9, 10, 16}) =>
               /\ text_screen = hist.pre.text_screen
               /\ gfx_screen = hist.pre.gfx_screen
               /\ crtc_cursor = hist.pre.crtc_cursor
               /\ state.background = hist.pre.state.background

\* The cursor shown (hidden = 0) in a mode that inhibits drawing, with the
\* background of the earlier mode released
C24_Witness ==
    /\ LastInt33({1})
    /\ state.hidden = 0
    /\ state.inhibit_draw
    /\ hist.pre.state.hidden = 1

\* ------------------------------------------------------------------------
\* Specification SpecRatio: the guest defines the mickey/pixel rate, the
\* host moves the captured pointer, the guest reads the counters
\* ------------------------------------------------------------------------
\* Function 0x0f: 2 and 1 mickeys per pixel, and arguments that are zero
\* or negative (0x8000, 0xffff)
O_SetRate ==
    /\ hist.ops < MaxRatioOps
    /\ \E r \in {<<16, 16>>, <<8, 8>>, <<0, 16>>, <<16, 32768>>,
                  <<65535, 24>>, <<24, 0>>} :
          Int33(15, 0, r[1], r[2], 0, 0, 0)

\* 100 pixels to the right, or half a pixel left and down; the
\* acceleration coefficient is 1.0
O_Move ==
    /\ hist.ops < MaxRatioOps
    /\ \E xy \in {<<100 * PosUnit, 0>>, <<-(PosUnit \div 2), PosUnit \div 2>>} :
          HostMovedStep(xy[1], xy[2], 0, 0, AccUnit)

\* Function 0x0b
O_Read ==
    /\ hist.ops < MaxRatioOps
    /\ Int33(11, 0, 0, 0, 0, 0, 0)

NextRatio ==
    \/ O_SetRate
    \/ O_Move
    \/ O_Read
    \/ HardReset
    \/ SoftReset

SpecRatio == Init /\ [][NextRatio]_vars

\* The last operation consumed one host move of 100 pixels to the right at
\* 2 mickeys per pixel, pointer captured, sensitivity 50, acceleration 1.0
MovedHundredAtTwo ==
    /\ last.op = "HostMoved"
    /\ last.a = <<100 * PosUnit, 0, 0, 0, AccUnit>>
    /\ hist.pre.pending.x_rel = 0
    /\ hist.pre.pending.y_rel = 0
    /\ hist.pre.state.mickeys_per_pixel_x = 16
    /\ hist.pre.state.mickeys_per_pixel_y = 16
    /\ is_captured(hist.pre)
    /\ hist.pre.raw_input
    /\ hist.pre.state.sensitivity_x = 50
    /\ hist.pre.state.sensitivity_y = 50

\* Function 0x0f with an argument that is not positive changes no ratio
RateKeptUnlessPositive ==
    LastInt33({15})
    /\ (reg_to_signed16(last.a[3]) <= 0 \/ reg_to_signed16(last.a[4]) <= 0)
    => /\ state.mickeys_per_pixel_x = hist.pre.state.mickeys_per_pixel_x
       /\ state.mickeys_per_pixel_y = hist.pre.state.mickeys_per_pixel_y

\* C23 as stated: such a move adds 200 to the x mickey counter (mod 65536)
\* and leaves the y counter; function 0x0f with an argument that is not
\* strictly positive leaves both ratios.
C23_MickeyRatio_AsStated ==
    /\ MovedHundredAtTwo =>
           /\ state.mickey_counter_x =
                  Wrap16(hist.pre.state.mickey_counter_x + 200)
           /\ state.mickey_counter_y = hist.pre.state.mickey_counter_y
    /\ RateKeptUnlessPositive

\* C23 (amended): the same for a move that finds both sub-mickey
\* remainders smaller than half a mickey.
C23_MickeyRatio ==
    /\ /\ MovedHundredAtTwo
       /\ 2 * Abs(hist.pre.state.mickey_delta_x) < MickeyUnit
       /\ 2 * Abs(hist.pre.state.mickey_delta_y) < MickeyUnit
       => /\ state.mickey_counter_x =
                 Wrap16(hist.pre.state.mickey_counter_x + 200)
          /\ state.mickey_counter_y = hist.pre.state.mickey_counter_y
    /\ RateKeptUnlessPositive

\* The move with counters that were not zero
C23_Witness ==
    /\ MovedHundredAtTwo
    /\ hist.pre.state.mickey_counter_x = 200
    /\ state.mickey_counter_x = 400
    /\ state.mickey_counter_y = 0

\* ------------------------------------------------------------------------
\* Specification SpecQueue: the host reports movements and wheel ticks,
\* the event queue consumes them later, the guest polls in between
\* ------------------------------------------------------------------------
Y_WheelApi ==
    /\ hist.ops < MaxQueueOps
    /\ Int33(17, 0, 0, 0, 0, 0, 0)

\* MOUSEDOS_NotifyMoved: 16 pixels right and 8 down, or half a pixel left
Y_NotifyMoved ==
    /\ hist.ops < MaxQueueOps
    /\ \E xy \in {<<16 * PosUnit, 8 * PosUnit>>, <<-(PosUnit \div 2), 0>>} :
          StepRet("NotifyMoved", <<xy[1], xy[2], 0, 0, AccUnit>>, M,
                  MOUSEDOS_NotifyMoved(M, xy[1], xy[2], 0, 0, AccUnit))

\* MOUSEDOS_NotifyWheel: one tick down, two up
Y_NotifyWheel ==
    /\ hist.ops < MaxQueueOps
    /\ \E w_rel \in {1, -2} :
          StepRet("NotifyWheel", <<w_rel>>, M, MOUSEDOS_NotifyWheel(M, w_rel))

\* The event queue consumes the movement
Y_UpdateMoved ==
    /\ hist.ops < MaxQueueOps
    /\ StepRet("UpdateMoved", <<AccUnit>>, M,
               Delivered(MOUSEDOS_UpdateMoved(M, AccUnit)))

\* The event queue consumes the wheel ticks
Y_UpdateWheel ==
    /\ hist.ops < MaxQueueOps
    /\ StepRet("UpdateWheel", <<>>, M, Delivered(MOUSEDOS_UpdateWheel(M)))

\* Functions 0x03 and 0x0b, and 0x05/0x06 for the wheel
Y_Read ==
    /\ hist.ops < MaxQueueOps
    /\ \E r \in {<<3, 0>>, <<11, 0>>, <<5, 65535>>, <<6, 65535>>} :
          Int33(r[1], r[2], 0, 0, 0, 0, 0)

NextQueue ==
    \/ Y_WheelApi
    \/ Y_NotifyMoved
    \/ Y_NotifyWheel
    \/ Y_UpdateMoved
    \/ Y_UpdateWheel
    \/ Y_Read
    \/ HardReset
    \/ SoftReset

SpecQueue == Init /\ [][NextQueue]_vars

\* C25: with dos_immediate off, MOUSEDOS_NotifyMoved and
\* MOUSEDOS_NotifyWheel change struct pending only: the position, the
\* mickey counters, the wheel counter, the last-wheel coordinates and all
\* else functions 0x03, 0x05, 0x06, 0x0b report stay as they were.
C25_BufferedInputInvisible ==
    last.op \in {"NotifyMoved", "NotifyWheel"} /\ ~hist.pre.dos_immediate =>
        /\ [M EXCEPT !.pending = hist.pre.pending] = hist.pre
        /\ \A ax \in {3, 11} :
              int33_handler([M EXCEPT !.regs.ax = ax]).regs =
                  int33_handler([hist.pre EXCEPT !.regs.ax = ax]).regs
        /\ \A ax \in {5, 6} : \A bx \in {0, 65535} :
              int33_handler([M EXCEPT !.regs.ax = ax, !.regs.bx = bx]).regs =
                  int33_handler([hist.pre EXCEPT !.regs.ax = ax,
                                                 !.regs.bx = bx]).regs

\* A wheel tick buffered behind a buffered movement, with the wheel
\* counter and the position not yet touched
C25_Witness ==
    /\ last.op = "NotifyWheel"
    /\ last.ret
    /\ pending.w_rel = 1
    /\ pending.x_rel = 16 * PosUnit
    /\ counter_w = 0
    /\ pos_x = 320 * PosUnit

\* C28: with dos_immediate off, function 0x03 or 0x0b called while a
\* movement is buffered consumes it: nothing stays pending and the call
\* reports the position and the mickey counts after the move.
C28_PollConsumes ==
    /\ LastInt33({3, 11})
    /\ ~hist.pre.dos_immediate
    /\ (hist.pre.pending.x_rel # 0 \/ hist.pre.pending.y_rel # 0)
    => /\ pending.x_rel = 0
       /\ pending.y_rel = 0
       /\ regs = int33_handler(MOUSEDOS_UpdateMoved(hist.pre, AccUnit).m).regs

\* ------------------------------------------------------------------------
\* Properties of the callback frame and of the return (SpecCallback)
\* ------------------------------------------------------------------------
\* C26: when a handler returns through the trampoline the in-flight flag
\* is cleared, whatever calls the handler made, and every event that meets
\* the registered mask can be delivered again.
C26_GuardReleased ==
    last.op = "ReturnFromCallback" =>
        /\ ~dos_cb_running
        /\ \A mask \in {MouseHasMoved, PressedLeft, ReleasedLeft, PressedRight} :
              MOUSEDOS_HasCallback(M, mask) =>
                  /\ CanDeliver(M, mask)
                  /\ InFlight(DeliverEvent(M, mask)) = InFlight(M) + 1

\* A handler started by a button press returns after one more operation,
\* its registration still in place
C26_Witness ==
    /\ last.op = "ReturnFromCallback"
    /\ hist.ops = 4
    /\ InFlight(M) = 0
    /\ buttons = 1
    /\ MOUSEDOS_HasCallback(M, ReleasedLeft)

\* The last operation started a callback
CallbackStarted == Len(guest_stack) = Len(hist.pre.guest_stack) + 4

\* C27: MOUSEDOS_DoCallback pushes the trampoline (segment, offset) and
\* then the registered handler (segment, offset), presents AL = event mask,
\* BL = buttons, CX/DX = the masked position, SI/DI = the mickey counters,
\* and clears neither the mickey counters nor the press/release counters
\* nor the position.
C27_CallbackFrame ==
    /\ CallbackStarted =>
           /\ SubSeq(guest_stack, 1, 4) =
                  << state.user_callback_offset, state.user_callback_segment,
                     user_callback_off, user_callback_seg >>
           /\ regs.ax % 256 = last.ret
           /\ regs.bx % 256 = buttons
           /\ regs.cx = get_pos_x(M)
           /\ regs.dx = get_pos_y(M)
           /\ regs.si = signed_to_reg16(state.mickey_counter_x)
           /\ regs.di = signed_to_reg16(state.mickey_counter_y)
           /\ dos_cb_running
    /\ \A mask \in {MouseHasMoved, PressedLeft, ReleasedLeft} :
          /\ MOUSEDOS_DoCallback(M, mask, buttons).state = state
          /\ MOUSEDOS_DoCallback(M, mask, buttons).pos_x = pos_x
          /\ MOUSEDOS_DoCallback(M, mask, buttons).pos_y = pos_y

\* A movement of 4 pixels delivered to the handler at 1000:0100: SI holds
\* the 4 mickeys, which stay in the counter
C27_Witness ==
    /\ CallbackStarted
    /\ last.op = "HostMoved"
    /\ regs.ax % 256 = MouseHasMoved
    /\ regs.si = 4
    /\ state.mickey_counter_x = 4
    /\ guest_stack[1] = 256
    /\ guest_stack[2] = 4096

\* ------------------------------------------------------------------------
\* Properties of the button events (SpecButtons)
\* ------------------------------------------------------------------------
\* C29: MOUSEDOS_UpdateButtons records, for exactly the buttons that
\* changed, the masked position as last press (release) position, adds one
\* to the press (release) counter and sets the Pressed (Released) bit in
\* the mask returned, then stores the new buttons; nothing else changes,
\* and the same buttons again return 0 and change nothing.
C29_ButtonDiff ==
    last.op = "HostButtons" =>
        /\ \A i \in 0..2 :
              /\ Bit(last.a[1], i) = 1 /\ Bit(hist.pre.buttons, i) = 0 =>
                     /\ state.last_pressed_x[i] = get_pos_x(hist.pre)
                     /\ state.last_pressed_y[i] = get_pos_y(hist.pre)
                     /\ state.times_pressed[i] =
                            hist.pre.state.times_pressed[i] + 1
                     /\ Bit(last.ret, 2 * i + 1) = 1
                     /\ Bit(last.ret, 2 * i + 2) = 0
              /\ Bit(last.a[1], i) = 0 /\ Bit(hist.pre.buttons, i) = 1 =>
                     /\ state.last_released_x[i] = get_pos_x(hist.pre)
                     /\ state.last_released_y[i] = get_pos_y(hist.pre)
                     /\ state.times_released[i] =
                            hist.pre.state.times_released[i] + 1
                     /\ Bit(last.ret, 2 * i + 1) = 0
                     /\ Bit(last.ret, 2 * i + 2) = 1
              /\ Bit(last.a[1], i) = Bit(hist.pre.buttons, i) =>
                     /\ Bit(last.ret, 2 * i + 1) = 0
                     /\ Bit(last.ret, 2 * i + 2) = 0
              /\ Bit(last.a[1], i) <= Bit(hist.pre.buttons, i) =>
                     /\ state.last_pressed_x[i] =
                            hist.pre.state.last_pressed_x[i]
                     /\ state.last_pressed_y[i] =
                            hist.pre.state.last_pressed_y[i]
                     /\ state.times_pressed[i] =
                            hist.pre.state.times_pressed[i]
              /\ Bit(last.a[1], i) >= Bit(hist.pre.buttons, i) =>
                     /\ state.last_released_x[i] =
                            hist.pre.state.last_released_x[i]
                     /\ state.last_released_y[i] =
                            hist.pre.state.last_released_y[i]
                     /\ state.times_released[i] =
                            hist.pre.state.times_released[i]
        /\ Bit(last.ret, 0) = 0
        /\ last.ret < 128
        /\ buttons = last.a[1]
        /\ [M EXCEPT !.buttons = hist.pre.buttons,
                     !.state.last_pressed_x = hist.pre.state.last_pressed_x,
                     !.state.last_pressed_y = hist.pre.state.last_pressed_y,
                     !.state.times_pressed = hist.pre.state.times_pressed,
                     !.state.last_released_x = hist.pre.state.last_released_x,
                     !.state.last_released_y = hist.pre.state.last_released_y,
                     !.state.times_released = hist.pre.state.times_released]
              = hist.pre
        /\ last.a[1] = hist.pre.buttons => last.ret = 0 /\ M = hist.pre

\* The left button released and the middle one pressed in one event, after
\* the pointer has moved
C29_Witness ==
    /\ last.op = "HostButtons"
    /\ hist.pre.buttons = 1
    /\ buttons = 4
    /\ last.ret = ReleasedLeft + PressedMiddle
    /\ state.last_released_x[0] = 336
    /\ state.last_pressed_x[2] = 336
    /\ state.last_pressed_x[0] = 320

\* ------------------------------------------------------------------------
\* The captured and the seamless regime (SpecSeamless)
\* ------------------------------------------------------------------------
\* The host releases or captures the pointer (mouse_is_captured is kept by
\* the host side of the emulator)
L_Capture ==
    /\ hist.ops < MaxSeamlessOps
    /\ Step("SetCaptured", <<~mouse_is_captured>>, M,
            [M EXCEPT !.mouse_is_captured = ~mouse_is_captured], 0)

\* A physical mouse is mapped to the interface, or the mapping is removed
L_Mapped ==
    /\ hist.ops < MaxSeamlessOps
    /\ Step("NotifyMapped", <<~is_mapped>>, M,
            MOUSEDOS_NotifyMapped(M, ~is_mapped), 0)

\* Graphics mode 0x13
L_VideoMode ==
    /\ hist.ops < MaxSeamlessOps
    /\ VideoModeStep(19)

\* Function 0x07: a large range, or one with maximum 0
L_RangeX ==
    /\ hist.ops < MaxSeamlessOps
    /\ \E max \in {4095, 0} : Int33(7, 0, 0, max, 0, 0, 0)

\* Function 0x08: a large range, a small one, or one with maximum 0
L_RangeY ==
    /\ hist.ops < MaxSeamlessOps
    /\ \E max \in {4095, 639, 0} : Int33(8, 0, 0, max, 0, 0, 0)

\* The host pointer moves to (100,50) or to (480,300) of its 641 x 401
\* display; the acceleration coefficient is 1.0
L_Move ==
    /\ hist.ops < MaxSeamlessOps
    /\ \E v \in {<<16 * PosUnit, 8 * PosUnit, 100, 50>>,
                  <<-4 * PosUnit, 2 * PosUnit, 480, 300>>} :
          HostMovedStep(v[1], v[2], v[3], v[4], AccUnit)

NextSeamless ==
    \/ L_Capture
    \/ L_Mapped
    \/ L_VideoMode
    \/ L_RangeX
    \/ L_RangeY
    \/ L_Move
    \/ HardReset
    \/ SoftReset

SpecSeamless == Init /\ [][NextSeamless]_vars

\* The last operation was a host movement consumed by move_cursor in a
\* graphics mode with the pointer not captured and no device mapped
SeamlessMove ==
    /\ last.op = "HostMoved"
    /\ ~hist.pre.mouse_is_captured
    /\ ~hist.pre.is_mapped
    /\ CurModeType(hist.pre.video_mode) # M_TEXT
    /\ \/ hist.pre.pending.x_abs # last.a[3]
       \/ hist.pre.pending.y_abs # last.a[4]

\* The position is the one before plus the pending relative movement,
\* scaled by sx and sy (in 1/(AccUnit * SensUnit)), limited to the range
MovedRelative(sx, sy) ==
    /\ pos_x = limit(hist.pre.pos_x
                       + MOUSE_ClampRelativeMovement(CDiv(
                           MOUSE_ClampRelativeMovement(
                               hist.pre.pending.x_rel + last.a[1]) * sx,
                           AccUnit * SensUnit)),
                     state.minpos_x, state.maxpos_x)
    /\ pos_y = limit(hist.pre.pos_y
                       + MOUSE_ClampRelativeMovement(CDiv(
                           MOUSE_ClampRelativeMovement(
                               hist.pre.pending.y_rel + last.a[2]) * sy,
                           AccUnit * SensUnit)),
                     state.minpos_y, state.maxpos_y)

\* The position is the host's absolute coordinate mapped linearly onto
\* 0 .. maxpos, limited to the range
MovedLinear ==
    /\ pos_x = limit(CDiv(
                         (last.a[3] - mouse_video_clip_x) * state.maxpos_x
                             * PosUnit,
                         mouse_video_res_x - 1),
                     state.minpos_x, state.maxpos_x)
    /\ pos_y = limit(CDiv(
                         (last.a[4] - mouse_video_clip_y) * state.maxpos_y
                             * PosUnit,
                         mouse_video_res_y - 1),
                     state.minpos_y, state.maxpos_y)

\* v + 1 is a power of two
PowerOfTwoAligned(v) == \E k \in 0..15 : v + 1 = 2 ^ k

\* C30 as stated: seamless regime selection: with the pointer not captured
\* and no device mapped, in a graphics mode, the position is the host's
\* absolute coordinate mapped linearly onto the guest range, and the
\* relative movement is added instead exactly when the range is very small,
\* non-square or not power-of-two-aligned; in captured mode the position
\* changes by relative movements only.
C30_SeamlessRegime_AsStated ==
    /\ SeamlessMove =>
          IF \/ state.maxpos_x < 2048
             \/ state.maxpos_y < 2048
             \/ state.maxpos_x # state.maxpos_y
             \/ ~PowerOfTwoAligned(state.maxpos_x)
             \/ ~PowerOfTwoAligned(state.maxpos_y)
          THEN MovedRelative(AccUnit * SensUnit, AccUnit * SensUnit)
          ELSE MovedLinear
    /\ last.op = "HostMoved" /\ is_captured(hist.pre) =>
          MovedRelative(last.a[5] * state.sensitivity_coeff_x,
                        last.a[5] * state.sensitivity_coeff_y)

\* C30: seamless regime selection: with the pointer not captured and no
\* device mapped, in a graphics mode, the position is the host's absolute
\* coordinate mapped linearly onto the guest range, and the relative
\* movement is added instead exactly when the range is large and square
\* (both maxima equal and at least 2048) or a maximum is not positive; in
\* captured mode the position changes by relative movements only.
C30_SeamlessRegime ==
    /\ SeamlessMove =>
          IF \/ state.maxpos_x >= 2048 /\ state.maxpos_x = state.maxpos_y
             \/ state.maxpos_x <= 0
             \/ state.maxpos_y <= 0
          THEN MovedRelative(AccUnit * SensUnit, AccUnit * SensUnit)
          ELSE MovedLinear
    /\ last.op = "HostMoved" /\ is_captured(hist.pre) =>
          MovedRelative(last.a[5] * state.sensitivity_coeff_x,
                        last.a[5] * state.sensitivity_coeff_y)

\* A seamless movement with the range 0..4095 in both directions: the
\* relative movement was added, and the linear mapping gives another place
C30_Witness ==
    /\ SeamlessMove
    /\ state.maxpos_x = 4095
    /\ state.maxpos_y = 4095
    /\ pos_x = hist.pre.pos_x + last.a[1]
    /\ last.a[1] # 0
    /\ ~MovedLinear

\* ------------------------------------------------------------------------
\* Specification SpecTeardown: video mode changes among show, hide, set
\* position, and the driver state saved and loaded
\* ------------------------------------------------------------------------
V_Show ==
    /\ hist.ops < MaxTeardownOps
    /\ Int33(1, 0, 0, 0, 0, 0, 0)

V_Hide ==
    /\ hist.ops < MaxTeardownOps
    /\ Int33(2, 0, 0, 0, 0, 0, 0)

\* Function 0x04
V_SetPosition ==
    /\ hist.ops < MaxTeardownOps
    /\ Int33(4, 0, 16, 8, 0, 0, 0)

\* Text mode 3, graphics mode 0x13, and a mode the driver cannot draw in
V_VideoMode ==
    /\ hist.ops < MaxTeardownOps
    /\ \E mode \in {3, 19, 106} : VideoModeStep(mode)

\* Function 0x16 to 2000:0000
V_Save ==
    /\ hist.ops < MaxTeardownOps
    /\ Int33(22, 0, 0, 0, 0, 0, 8192)

\* Function 0x17 from 2000:0000, once a state was saved there
V_Load ==
    /\ hist.ops < MaxTeardownOps
    /\ SegPhys(8192) \in DOMAIN guest_mem
    /\ Int33(23, 0, 0, 0, 0, 0, 8192)

NextTeardown ==
    \/ V_Show
    \/ V_Hide
    \/ V_SetPosition
    \/ V_VideoMode
    \/ V_Save
    \/ V_Load
    \/ HardReset
    \/ SoftReset

SpecTeardown == Init /\ [][NextTeardown]_vars

\* C31: after a video mode change hidden = oldhidden = 1 and no background
\* is saved, whatever the hide count was; while the BIOS video mode is one
\* the driver does not support, inhibit_draw is set, and no call touches
\* the screen or the saved background.
C31_ModeChangeTeardown ==
    /\ last.op = "SetVideoMode" =>
          /\ state.hidden = 1
          /\ state.oldhidden = 1
          /\ ~state.background.enabled
    /\ ~SupportedMode(video_mode) =>
          /\ state.inhibit_draw
          /\ last.op # "SetVideoMode" =>
                /\ text_screen = hist.pre.text_screen
                /\ gfx_screen = hist.pre.gfx_screen
                /\ crtc_cursor = hist.pre.crtc_cursor
                /\ state.background = hist.pre.state.background

\* ------------------------------------------------------------------------
\* Specification SpecGfx: the graphics cursor shown, moved to the middle
\* and to the corners of the screen, given a hot spot, hidden; the display
\* page of the driver changed
\* ------------------------------------------------------------------------
X_Show ==
    /\ hist.ops < MaxGfxOps
    /\ Int33(1, 0, 0, 0, 0, 0, 0)

X_Hide ==
    /\ hist.ops < MaxGfxOps
    /\ Int33(2, 0, 0, 0, 0, 0, 0)

\* Function 0x04: the top left corner, the bottom right corner, the middle
X_SetPosition ==
    /\ hist.ops < MaxGfxOps
    /\ \E xy \in {<<0, 0>>, <<639, 199>>, <<320, 100>>} :
          Int33(4, 0, xy[1], xy[2], 0, 0, 0)

\* Function 0x09 (masks at 4000:0000, never written: all zero) with the
\* hot spots (16,16), (-16,-16) and (5,5); 100 and -100 are clamped
X_Cursor ==
    /\ hist.ops < MaxGfxOps
    /\ \E h \in {<<100, 16>>, <<65520, 65436>>, <<5, 5>>} :
          Int33(9, h[1], h[2], 0, 0, 0, 16384)

\* Graphics mode 0x13 (320 x 200, two positions per pixel horizontally)
X_VideoMode ==
    /\ hist.ops < MaxGfxOps
    /\ VideoModeStep(19)

\* Function 0x1d: display page 1
X_Page ==
    /\ hist.ops < MaxGfxOps
    /\ Int33(29, 1, 0, 0, 0, 0, 0)

NextGfx ==
    \/ X_Show
    \/ X_Hide
    \/ X_SetPosition
    \/ X_Cursor
    \/ X_VideoMode
    \/ X_Page
    \/ HardReset
    \/ SoftReset

SpecGfx == Init /\ [][NextGfx]_vars

\* The pixel at screen key k (x, y, page) lies in the 16 x 16 block whose
\* top left corner is the saved background position, and the saved data
\* holds at 16 * (y - top) + (x - left) what the screen held there before
\* the cursor was drawn
SavedFrom(k) ==
    /\ k[1] - ToInt16(state.background.pos_x) \in 0..(cursor_size_x - 1)
    /\ k[2] - ToInt16(state.background.pos_y) \in 0..(cursor_size_y - 1)
    /\ state.background.data[
           cursor_size_x * (k[2] - ToInt16(state.background.pos_y))
           + (k[1] - ToInt16(state.background.pos_x))]
       = BasePixel(k[1], k[2], k[3])

\* C32: graphics draw / restore round trip: with no screen writes but those
\* of the driver, once the cursor is restored (no background saved) every
\* pixel of the screen holds what it held before the draw, and while a
\* background is saved every pixel that differs lies under the cursor block
\* and its old value is in the saved data, at every position and hot spot,
\* clipped or not; the background is restored before every new save.
C32_DrawRestoreRoundTrip ==
    CurModeType(video_mode) # M_TEXT =>
        /\ ~state.background.enabled => gfx_screen = EmptyScreen
        /\ state.background.enabled =>
              \A k \in DOMAIN gfx_screen : SavedFrom(k)

\* The loops over the clipped area c of the block with top left corner
\* (left, top) reach the pixel (x, y) with data_pos at
\* 16 * (y - top) + (x - left), inside the 256 bytes, take the mask row
\* y - top, inside the 16 rows, and reach pixels of the screen only
IndexedFrom(c, left, top) ==
    \A p \in Covered(c) :
        /\ DataPos(c, p[1], p[2])
               = cursor_size_x * (p[2] - top) + (p[1] - left)
        /\ DataPos(c, p[1], p[2]) \in 0..(cursor_size_xy - 1)
        /\ c.addy + p[2] - c.y1 = p[2] - top
        /\ p[2] - top \in 0..(cursor_size_y - 1)
        /\ c.addx1 + (p[1] - c.x1) = p[1] - left
        /\ p[1] - left \in 0..(cursor_size_x - 1)
        /\ p[1] \in 0..state.clipx
        /\ p[2] \in 0..state.clipy

\* C33: clipping indexes the buffers correctly: at every position and hot
\* spot, each pixel (x, y) the save, draw and restore loops reach has
\* background index 16 * (y - y_top) + (x - x_left), within 0..255, and
\* mask row y - y_top, within 0..15, (x_left, y_top) being the unclipped
\* corner of the block, and lies within 0..clipx and 0..clipy.
C33_ClippedIndexing ==
    CurModeType(video_mode) # M_TEXT /\ state.background.enabled =>
        IndexedFrom(cursor_area(M, ToInt16(state.background.pos_x),
                                ToInt16(state.background.pos_y)),
                    ToInt16(state.background.pos_x),
                    ToInt16(state.background.pos_y))

\* The block drawn with hot spot (5,5) at the bottom right corner: six
\* columns and six rows of it are on the screen
C33_Witness ==
    /\ LastInt33({4, 9})
    /\ CurModeType(video_mode) # M_TEXT
    /\ state.background.enabled
    /\ state.hot_x = 5
    /\ ToInt16(state.background.pos_x) = 314
    /\ ToInt16(state.background.pos_y) = 194
    /\ Cardinality(DOMAIN gfx_screen) > 1
    /\ \A k \in DOMAIN gfx_screen : k[1] \in 314..319 /\ k[2] \in 194..199

\* ------------------------------------------------------------------------
\* Specification SpecImmediate: movements notified and consumed while the
\* setting dos_mouse_immediate changes
\* ------------------------------------------------------------------------
\* The configuration is read again with the setting changed
I_Config ==
    /\ hist.ops < MaxImmediateOps
    /\ Step("config_read", <<~dos_immediate>>, M,
            config_read(M, ~dos_immediate), 0)

\* MOUSEDOS_NotifyMoved: 16 pixels right and 8 down, or 3 pixels left
I_NotifyMoved ==
    /\ hist.ops < MaxImmediateOps
    /\ \E xy \in {<<16 * PosUnit, 8 * PosUnit>>, <<-3 * PosUnit, 0>>} :
          StepRet("NotifyMoved", <<xy[1], xy[2], 0, 0, AccUnit>>, M,
                  MOUSEDOS_NotifyMoved(M, xy[1], xy[2], 0, 0, AccUnit))

\* The event queue calls MOUSEDOS_UpdateMoved
I_UpdateMoved ==
    /\ hist.ops < MaxImmediateOps
    /\ StepRet("UpdateMoved", <<0, 0, 0, 0, AccUnit>>, M,
               Delivered(MOUSEDOS_UpdateMoved(M, AccUnit)))

\* Function 0x0b
I_Read ==
    /\ hist.ops < MaxImmediateOps
    /\ Int33(11, 0, 0, 0, 0, 0, 0)

NextImmediate ==
    \/ I_Config
    \/ I_NotifyMoved
    \/ I_UpdateMoved
    \/ I_Read
    \/ HardReset
    \/ SoftReset

SpecImmediate == Init /\ [][NextImmediate]_vars

\* C34: every notified movement is consumed exactly once, whichever setting
\* of dos_immediate is in effect at each step: what a notification or an
\* update takes out of pending.x_rel / y_rel is what it adds to the position
\* (sensitivity 50, acceleration 1.0, inside the range), and after
\* MOUSEDOS_UpdateMoved nothing is left pending.
C34_ConsumedOnce ==
    last.op \in {"NotifyMoved", "UpdateMoved"} =>
        /\ pos_x - hist.pre.pos_x
              = hist.pre.pending.x_rel + last.a[1] - pending.x_rel
        /\ pos_y - hist.pre.pos_y
              = hist.pre.pending.y_rel + last.a[2] - pending.y_rel
        /\ last.op = "UpdateMoved" =>
              /\ pending.x_rel = 0
              /\ pending.y_rel = 0

\* ------------------------------------------------------------------------
\* Specification SpecEvents: movements and wheel ticks delivered to a
\* handler registered for event bit 0, with the wheel extension
\* ------------------------------------------------------------------------
\* Function 0x11
J_WheelApi ==
    /\ hist.ops < MaxEventOps
    /\ Int33(17, 0, 0, 0, 0, 0, 0)

\* Function 0x0c: a handler at 1000:0100 for the events of bit 0
J_SetCallback ==
    /\ hist.ops < MaxEventOps
    /\ Int33(12, 0, 1, 256, 0, 0, 4096)

\* One wheel tick down or two up, consumed and delivered
J_HostWheel ==
    /\ hist.ops < MaxEventOps
    /\ InFlight(M) < MaxInFlight
    /\ \E w_rel \in {1, -2} : HostWheelStep(w_rel)

\* A movement of 4 pixels to the right, consumed and delivered
J_HostMoved ==
    /\ hist.ops < MaxEventOps
    /\ InFlight(M) < MaxInFlight
    /\ HostMovedStep(4 * PosUnit, 0, 0, 0, AccUnit)

\* The guest handler returns
J_CallbackReturn ==
    /\ hist.ops < MaxEventOps
    /\ CallbackReturnStep

\* Function 0x03
J_Read ==
    /\ hist.ops < MaxEventOps
    /\ Int33(3, 0, 0, 0, 0, 0, 0)

NextEvents ==
    \/ J_WheelApi
    \/ J_SetCallback
    \/ J_HostWheel
    \/ J_HostMoved
    \/ J_CallbackReturn
    \/ J_Read
    \/ HardReset
    \/ SoftReset

SpecEvents == Init /\ [][NextEvents]_vars

\* C35: a pointer movement consumed and delivered to the handler leaves the
\* wheel counter as it was, and the handler is given no wheel movement in
\* BH: MOUSEDOS_DoCallback reads and clears counter_w for wheel events only.
C35_MovementKeepsWheel ==
    last.op = "HostMoved" =>
        /\ counter_w = hist.pre.counter_w
        /\ InFlight(M) > InFlight(hist.pre) => regs.bx \div 256 = 0

\* ------------------------------------------------------------------------
\* Properties of the hidden and of the disabled cursor (Spec, SpecDisable)
\* ------------------------------------------------------------------------
\* C36: no saved cursor background is outstanding while the cursor is
\* hidden: state.background.enabled implies state.hidden = 0 and
\* state.inhibit_draw = false, in every reachable state.
C36_NoBackgroundWhileHidden ==
    state.background.enabled => state.hidden = 0 /\ ~state.inhibit_draw

\* C38: while the driver is disabled (after function 0x1f, before the next
\* 0x20 or reset) the cursor stays hidden: state.hidden is at least 1, and
\* a show or hide call made in the meantime leaves the screen and the
\* saved background as they were.
C38_DisabledStaysHidden ==
    /\ ~state.enabled => state.hidden >= 1
    /\ LastInt33({1, 2}) /\ ~hist.pre.state.enabled =>
          /\ text_screen = hist.pre.text_screen
          /\ gfx_screen = hist.pre.gfx_screen
          /\ state.background = hist.pre.state.background

\* ------------------------------------------------------------------------
\* Specification SpecThreshold: the double-speed threshold set by function
\* 0x13, saved, and loaded from blocks the guest has written
\* ------------------------------------------------------------------------
\* Function 0x13
Z_DoubleSpeed ==
    /\ hist.ops < MaxThresholdOps
    /\ \E bx \in {0, 32, 65535} : Int33(19, bx, 0, 0, 0, 0, 0)

\* Function 0x16 to 3000:0000
Z_Save ==
    /\ hist.ops < MaxThresholdOps
    /\ Int33(22, 0, 0, 0, 0, 0, 12288)

\* The guest writes a block to 3000:0000: the state with the threshold
\* cleared, or with a threshold of its own
Z_GuestWrite ==
    /\ hist.ops < MaxThresholdOps
    /\ \E t \in {0, 500} :
          Step("GuestWrite", <<12288, 0>>, M,
               MEM_BlockWrite(
                   M, SegPhys(12288),
                   [kind |-> "state",
                    data |-> [state EXCEPT !.double_speed_threshold = t]]),
               0)

\* Function 0x17 from 3000:0000, once a block is there
Z_Load ==
    /\ hist.ops < MaxThresholdOps
    /\ SegPhys(12288) \in DOMAIN guest_mem
    /\ Int33(23, 0, 0, 0, 0, 0, 12288)

\* A movement of 4 pixels to the right
Z_Move ==
    /\ hist.ops < MaxThresholdOps
    /\ HostMovedStep(4 * PosUnit, 0, 0, 0, AccUnit)

NextThreshold ==
    \/ Z_DoubleSpeed
    \/ Z_Save
    \/ Z_GuestWrite
    \/ Z_Load
    \/ Z_Move
    \/ HardReset
    \/ SoftReset

SpecThreshold == Init /\ [][NextThreshold]_vars

\* C37 as stated: state.double_speed_threshold is nonzero in every state
\* reachable after MOUSEDOS_Init, function 0x13 with BX = 0 and function
\* 0x17 of an arbitrary guest block included.
C37_ThresholdNonzero_AsStated == state.double_speed_threshold # 0

\* C37: state.double_speed_threshold is nonzero after MOUSEDOS_Init and
\* stays nonzero across every call of the dispatcher other than function
\* 0x17: function 0x13 stores BX, or 64 for BX = 0, a reset stores 64, and
\* function 0x17 stores the threshold of the guest block as it is.
C37_ThresholdNonzero ==
    /\ last.op = "init" => state.double_speed_threshold # 0
    /\ LastInt33({19}) =>
          state.double_speed_threshold
              = (IF last.a[2] = 0 THEN default_double_speed_threshold
                 ELSE last.a[2])
    /\ LastInt33({0, 33}) =>
          state.double_speed_threshold = default_double_speed_threshold
    /\ LastInt33({23}) =>
          state.double_speed_threshold =
              guest_mem[SegPhys(last.a[7]) + last.a[4]].data
                  .double_speed_threshold
    /\ ~LastInt33({23}) /\ hist.pre.state.double_speed_threshold # 0 =>
          state.double_speed_threshold # 0

\* Function 0x13 with BX = 0 after a threshold of 0 was loaded from a guest
\* block: the default is stored
C37_Witness ==
    /\ LastInt33({19})
    /\ last.a[2] = 0
    /\ hist.pre.state.double_speed_threshold = 0
    /\ state.double_speed_threshold = default_double_speed_threshold

\* ------------------------------------------------------------------------
\* Specification SpecPairing: press and release counters against the
\* button state, up to the wrap of the counters
\* ------------------------------------------------------------------------
\* The host reports a button state: none, left, left and right, middle,
\* left and middle
E_Buttons ==
    /\ hist.ops < MaxPairOps
    /\ \E new_buttons \in {0, 1, 3, 4, 5} : HostButtonsStep(new_buttons)

\* A movement of 16 pixels right and 8 down
E_Move ==
    /\ hist.ops < MaxPairOps
    /\ HostMovedStep(16 * PosUnit, 8 * PosUnit, 0, 0, AccUnit)

\* Functions 0x05 and 0x06 for the left button
E_Query ==
    /\ hist.ops < MaxPairOps
    /\ \E ax \in {5, 6} : Int33(ax, 0, 0, 0, 0, 0, 0)

\* The guest writes the state to 3000:0000 with the counters of every
\* button moved to the top of their range
E_GuestWrite ==
    /\ hist.ops < MaxPairOps
    /\ Step("GuestWrite", <<12288, 0>>, M,
            MEM_BlockWrite(
                M, SegPhys(12288),
                [kind |-> "state",
                 data |-> [state EXCEPT
                             !.times_pressed =
                                 [i \in 0..2 |-> ToUint16(@[i] + UINT16_MAX)],
                             !.times_released =
                                 [i \in 0..2 |-> ToUint16(@[i] + UINT16_MAX)]]]),
            0)

\* Function 0x17 from 3000:0000, once a block is there
E_Load ==
    /\ hist.ops < MaxPairOps
    /\ SegPhys(12288) \in DOMAIN guest_mem
    /\ Int33(23, 0, 0, 0, 0, 0, 12288)

NextPairing ==
    \/ E_Buttons
    \/ E_Move
    \/ E_Query
    \/ E_GuestWrite
    \/ E_Load
    \/ HardReset
    \/ SoftReset

SpecPairing == Init /\ [][NextPairing]_vars

\* Every button has been pressed once more than released if it is down and
\* as often as released if it is up, modulo 2^16
Paired(m) ==
    \A i \in 0..(num_buttons - 1) :
        ToUint16(m.state.times_pressed[i] - m.state.times_released[i])
            = Bit(m.buttons, i)

\* C39: press and release counts stay paired with the button state: they
\* are paired after a reset with all buttons released, and every call of
\* MOUSEDOS_UpdateButtons, and every other operation that is not a counter
\* query (0x05, 0x06), a reset or a state load, keeps them paired, the
\* counts taken modulo 2^16.
C39_CountsPaired ==
    /\ (last.op = "init" \/ LastInt33({0, 33})) /\ buttons = 0 => Paired(M)
    /\ last.op = "HostButtons" /\ Paired(hist.pre) => Paired(M)
    /\ ~LastInt33({0, 5, 6, 23, 33}) /\ Paired(hist.pre) => Paired(M)

\* After a reset with all buttons released the host has reported left and
\* right down, then left and middle: left is down with one press, right is
\* up with one press and one release, middle is down with one press
C39_Witness ==
    /\ last.op = "HostButtons"
    /\ buttons = 5
    /\ hist.pre.buttons = 3
    /\ state.times_pressed = [i \in 0..2 |-> 1]
    /\ state.times_released = [i \in 0..2 |-> IF i = 1 THEN 1 ELSE 0]

\* ------------------------------------------------------------------------
\* Specification SpecShow: the update region against show, with the state
\* saved and loaded
\* ------------------------------------------------------------------------
F_Show ==
    /\ hist.ops < MaxShowOps
    /\ Int33(1, 0, 0, 0, 0, 0, 0)

F_Hide ==
    /\ hist.ops < MaxShowOps
    /\ Int33(2, 0, 0, 0, 0, 0, 0)

\* Function 0x10: a region covering the whole screen, its corner, and one
\* whose bottom is above its top
F_Region ==
    /\ hist.ops < MaxShowOps
    /\ \E r \in {<<0, 0, 639, 479>>, <<0, 0, 7, 7>>, <<0, 50, 639, 10>>} :
          Int33(16, 0, r[1], r[2], r[3], r[4], 0)

\* Function 0x04
F_SetPosition ==
    /\ hist.ops < MaxShowOps
    /\ Int33(4, 0, 4, 4, 0, 0, 0)

\* Function 0x0a: a hardware cursor
F_Cursor ==
    /\ hist.ops < MaxShowOps
    /\ Int33(10, 1, 6, 7, 0, 0, 0)

\* Text mode 3 and graphics mode 0x13
F_VideoMode ==
    /\ hist.ops < MaxShowOps
    /\ \E mode \in {3, 19} : VideoModeStep(mode)

\* Function 0x16 to 2000:0000
F_Save ==
    /\ hist.ops < MaxShowOps
    /\ Int33(22, 0, 0, 0, 0, 0, 8192)

\* Function 0x17 from 2000:0000, once a state was saved there
F_Load ==
    /\ hist.ops < MaxShowOps
    /\ SegPhys(8192) \in DOMAIN guest_mem
    /\ Int33(23, 0, 0, 0, 0, 0, 8192)

NextShow ==
    \/ F_Show
    \/ F_Hide
    \/ F_Region
    \/ F_SetPosition
    \/ F_Cursor
    \/ F_VideoMode
    \/ F_Save
    \/ F_Load
    \/ HardReset
    \/ SoftReset

SpecShow == Init /\ [][NextShow]_vars

\* No position get_pos_x, get_pos_y can return (0..65535 each) lies inside
\* the update region
RegionEmpty(m) ==
    \/ Max(m.state.update_region_x[0], 0) > m.state.update_region_x[1]
    \/ Max(m.state.update_region_y[0], 0) > m.state.update_region_y[1]

\* Function 0x01 has left the hide count at 0 with drawing not inhibited,
\* and the cursor is drawn at the current position: in a text mode with a
\* software cursor the cell of the position is saved, in a graphics mode
\* the block at the position
ShowHasDrawn ==
    /\ RegionEmpty(M)
    /\ (CurModeType(video_mode) = M_TEXT
          /\ state.cursor_type = CursorSoftware) =>
           /\ state.background.enabled
           /\ state.background.pos_x
                  = (IF state.mode < 2 THEN get_pos_x(M) \div 16
                     ELSE get_pos_x(M) \div 8)
           /\ state.background.pos_y = get_pos_y(M) \div 8
    /\ CurModeType(video_mode) # M_TEXT =>
           /\ state.background.enabled
           /\ state.background.pos_x
                  = ToUint16(CDiv(get_pos_x(M),
                                  cursor_xratio(CurModeWidth(video_mode)))
                             - state.hot_x)
           /\ state.background.pos_y = ToUint16(get_pos_y(M) - state.hot_y)

\* C40 as stated: show clears the update region and draws the cursor, and
\* after any show no cursor position lies inside the region until function
\* 0x10 is called again.
C40_ShowClearsRegion_AsStated ==
    /\ LastInt33({1}) => RegionEmpty(M)
    /\ LastInt33({1}) /\ state.hidden = 0 /\ ~state.inhibit_draw
          => ShowHasDrawn
    /\ ~LastInt33({16}) /\ RegionEmpty(hist.pre) => RegionEmpty(M)

\* C40: show (0x01) clears the update region and forces a redraw: after
\* function 0x10 has defined a region containing the cursor, a show that
\* brings hidden to 0 draws the cursor at its current position whatever
\* that position is (in a text mode with a software cursor the background
\* becomes saved), and after any show no cursor position lies inside the
\* region until function 0x10 is called again or function 0x17 loads a
\* state with a region of its own.
C40_ShowClearsRegion ==
    /\ LastInt33({1}) => RegionEmpty(M)
    /\ LastInt33({1}) /\ state.hidden = 0 /\ ~state.inhibit_draw
          => ShowHasDrawn
    /\ ~LastInt33({16, 23}) /\ RegionEmpty(hist.pre) => RegionEmpty(M)

\* Text mode, software cursor, the region of function 0x10 holds the
\* position: show brings the hide count from 1 to 0 and the background is
\* saved
C40_Witness ==
    /\ LastInt33({1})
    /\ hist.pre.state.hidden = 1
    /\ state.hidden = 0
    /\ InUpdateRegion(hist.pre)
    /\ ~RegionEmpty(hist.pre)
    /\ CurModeType(video_mode) = M_TEXT
    /\ state.cursor_type = CursorSoftware
    /\ state.background.enabled

====
